---- MODULE Spec2Model ----
(***************************************************************************)
(* Model of the palm-reading service: the reading endpoint (POST of        *)
(* src/unnamed/part_001) with callGeminiWithRetry and generateLocalReading, *)
(* and the chat endpoint (POST of src/unnamed/part_000) with                *)
(* generateLocalChatResponse.                                               *)
(*                                                                         *)
(* JavaScript values are records tagged by "kind", so that any two values   *)
(* can be compared.  Text written by the program is a TLA+ string (the      *)
(* dash U+2014 of the source is written "--"); text that comes from         *)
(* outside and that the program inspects is a sequence: of tokens for the   *)
(* model's raw output, of characters for a chat message.                    *)
(***************************************************************************)
EXTENDS Integers, Sequences, FiniteSets, TLC

VARIABLES
    pc,             \* position of the handler / of the function under test
    apiKey,         \* process.env.GEMINI_API_KEY: "absent", "placeholder", "valid"
    body,           \* the request as received, before request.json()
    dominantHand,   \* POST's local dominantHand
    focusArea,      \* POST's local focusArea
    maxRetries,     \* callGeminiWithRetry's parameter
    attempt,        \* callGeminiWithRetry's loop variable
    lastError,      \* callGeminiWithRetry's lastError
    calls,          \* number of calls made to the model so far
    inFlight,       \* number of model calls issued and not yet settled
    waits,          \* the setTimeout delays awaited so far, in order
    log,            \* what console.error / console.log have written
    result,         \* what the model call returned
    thrown,         \* the value a function under test has thrown
    seed,           \* the Date.now() value read by generateLocalReading
    response,       \* the HTTP response of the handler
    sentHistory,    \* the history handed to model.startChat
    sentMessage,    \* the message handed to chatSession.sendMessage
    other,          \* the locals of a second request, suspended at an await
    page            \* the state of the page component and its localStorage

vars == << pc, apiKey, body, dominantHand, focusArea, maxRetries, attempt,
           lastError, calls, inFlight, waits, log, result, thrown, seed,
           response, sentHistory, sentMessage, other, page >>

-----------------------------------------------------------------------------
(* JavaScript values *)

Undefined == [kind |-> "undefined"]
Null == [kind |-> "null"]
Str(s) == [kind |-> "string", val |-> s]
Num(n) == [kind |-> "number", val |-> n]
Obj(f) == [kind |-> "object", val |-> f]
Arr(a) == [kind |-> "array", val |-> a]
\* a string whose content is modelled as a sequence (tokens or characters)
Text(t) == [kind |-> "text", val |-> t]

\* ToBoolean, as applied by !x, x ? a : b and x || y
Truthy(v) ==
    CASE v.kind = "undefined" -> FALSE
      [] v.kind = "null" -> FALSE
      [] v.kind = "string" -> v.val # ""
      [] v.kind = "text" -> v.val # << >>
      [] v.kind = "number" -> v.val # 0
      [] OTHER -> TRUE

\* property access o.k on an object value (undefined when the property is absent)
Get(o, k) ==
    IF o.kind = "object" /\ k \in DOMAIN o.val THEN o.val[k] ELSE Undefined

\* JSON.stringify followed by the client's parse, as NextResponse.json sends a
\* value: properties whose value is undefined are dropped, at both levels of
\* a Reading
JSONDrop(v) ==
    IF v.kind = "object"
    THEN Obj([k \in {j \in DOMAIN v.val : v.val[j] # Undefined} |-> v.val[k]])
    ELSE v

NextResponseJson(v) ==
    IF v.kind = "object"
    THEN Obj([k \in {j \in DOMAIN v.val : v.val[j] # Undefined} |->
                 JSONDrop(v.val[k])])
    ELSE v

-----------------------------------------------------------------------------
(* The millisecond clock.  Date.now() exceeds 2^31, so a clock value is kept *)
(* in three limbs: hi * 2^32 + mid * 2^16 + lo, with mid, lo in 0..65535.    *)

SeedHigh == 416
MaxSeedMid == 4
MaxSeedLow == 6

SeedMids == (0 .. MaxSeedMid) \cup (32768 .. 32768 + MaxSeedMid)

\* the low limbs are spread so that seed >> 4 and seed >> 8 differ
SeedLowStep == 37
SeedLows == { l * SeedLowStep : l \in 0 .. MaxSeedLow }

Seeds ==
    { [hi |-> SeedHigh, mid |-> m, lo |-> l] : m \in SeedMids, l \in SeedLows }

\* seed % n for the (non-negative, exact) number seed
SeedMod(s, n) ==
    ( s.hi * (((65536 % n) * (65536 % n)) % n) + s.mid * (65536 % n) + s.lo ) % n

\* ToInt32(seed): the low 32 bits read as a signed integer, as >> does first
ToInt32(s) ==
    IF s.mid >= 32768 THEN (s.mid - 65536) * 65536 + s.lo
                      ELSE s.mid * 65536 + s.lo

\* seed >> k: sign-propagating shift of ToInt32(seed)
ShiftRight(s, k) == ToInt32(s) \div (2 ^ k)

\* x % n of JavaScript on integers: the result has the sign of x
JSRem(x, n) == IF x >= 0 THEN x % n ELSE -((-x) % n)

\* arr[i] for a JavaScript array of strings (0-based; undefined out of range)
ArrayAt(arr, i) ==
    IF i >= 0 /\ i < Len(arr) THEN Str(arr[i + 1]) ELSE Undefined

-----------------------------------------------------------------------------
(* generateLocalReading: the pools and the three index streams *)

heartObservations ==
    << "Your heart line curves gracefully upward, touching the base of your index finger",
       "A deep, clear heart line extends across your palm with gentle undulations",
       "Your heart line shows a slight fork at its end, branching toward wisdom",
       "The heart line on your palm runs long and unbroken, with subtle depth variations",
       "A beautifully curved heart line sweeps across your palm with quiet strength" >>

heartMeanings ==
    << "You possess a deeply romantic nature and form lasting emotional bonds with those you love.",
       "Your emotional intelligence guides you through life's complexities with grace and understanding.",
       "You have the capacity for profound love, though you choose carefully where to place your heart.",
       "Your emotional world is rich and textured--you feel deeply and love with intention.",
       "You balance heart and mind beautifully, making decisions that honor both logic and feeling." >>

headObservations ==
    << "Your head line extends with clarity and purpose across the center of your palm",
       "A gently sloping head line indicates a blend of creative and analytical thinking",
       "The head line shows depth and consistency, curving slightly downward toward imagination",
       "Your head line begins strongly, showing independence of thought from an early age",
       "A long, clear head line stretches across your palm with remarkable definition" >>

headMeanings ==
    << "You possess a sharp, analytical mind that can cut through confusion to find truth.",
       "Your thinking blends creativity with practicality--you dream big but plan wisely.",
       "Mental clarity is your gift; you see patterns others miss and connect disparate ideas.",
       "You think independently and aren't easily swayed by popular opinion or passing trends.",
       "Your intellectual curiosity knows no bounds--learning is a lifelong joy for you." >>

lifeObservations ==
    << "The life line sweeps in a wide arc around your thumb, full of vitality",
       "Your life line shows remarkable depth and clarity, curving with confidence",
       "A strong life line encircles the mount of Venus with steady determination",
       "The life line begins boldly and maintains its strength throughout its journey",
       "Your life line shows subtle variations that speak to meaningful life transitions" >>

lifeMeanings ==
    << "You have abundant life energy and the resilience to overcome any challenge.",
       "Your vitality is strong--you bring enthusiasm and energy to everything you do.",
       "Major positive transitions await you; the universe is aligning opportunities on your path.",
       "You have deep reserves of strength that emerge precisely when you need them most.",
       "Your life force is vibrant; you inspire others simply by being authentically yourself." >>

adviceList ==
    << "Trust your intuition--it has been sharpened by experience and will not lead you astray.",
       "The path ahead may seem unclear, but each step you take illuminates the next. Keep moving.",
       "Open your heart to new possibilities; the universe is preparing gifts you cannot yet imagine.",
       "Balance is your key to fulfillment--nurture both your ambitions and your need for peace.",
       "Your greatest strength lies in your authenticity. Never dim your light for others' comfort.",
       "The spirits remind you: what you seek is also seeking you. Remain open and patient.",
       "Release what no longer serves you; your hands are meant to receive new blessings." >>

\* the clause a template literal interpolates for ${focusArea}
TemplateString(v) == IF v.kind = "string" THEN v.val ELSE v.kind

overallReadings(hand, focus) ==
    << "Your palm reveals a beautiful harmony between heart, mind, and spirit. The lines suggest someone who has walked through challenges with grace and emerged wiser. "
         \o (IF hand = Str("left")
             THEN "Your left hand shows the gifts you were born with--and they are considerable."
             ELSE "Your right hand shows what you're actively creating--and it's remarkable.")
         \o " A period of growth and fulfillment lies ahead.",
       "The Oracle sees in your palm a soul on the cusp of transformation. Your lines speak of accumulated wisdom and untapped potential waiting to bloom. "
         \o (IF Truthy(focus)
             THEN "In matters of " \o TemplateString(focus) \o ", the spirits whisper of positive change approaching."
             ELSE "Trust in the journey that unfolds before you.")
         \o " The universe recognizes your efforts.",
       "Your palm tells a story of resilience and hope. The major lines align in a pattern suggesting that past struggles are transforming into future strengths. "
         \o (IF hand = Str("right")
             THEN "Your active hand shows you're taking control of your destiny."
             ELSE "Your receptive hand reveals deep intuitive gifts.")
         \o " Beautiful chapters await.",
       "The lines of your palm weave a tapestry of promise. Heart and head work in concert, guiding you toward meaningful experiences and genuine connections. "
         \o (IF Truthy(focus)
             THEN "The energy around " \o TemplateString(focus) \o " is particularly bright in your reading."
             ELSE "All aspects of your life are moving toward balance.")
         \o " Trust your inner compass.",
       "Your palm radiates quiet strength and untold potential. The Oracle perceives a soul that has learned much and has even more to discover. "
         \o (IF hand = Str("left")
             THEN "Your innate talents are your greatest treasures."
             ELSE "Your actions are shaping a future filled with purpose.")
         \o " Walk forward with confidence." >>

pick(s, arr) == ArrayAt(arr, SeedMod(s, Len(arr)))
pick2(s, arr) == ArrayAt(arr, JSRem(ShiftRight(s, 4), Len(arr)))
pick3(s, arr) == ArrayAt(arr, JSRem(ShiftRight(s, 8), Len(arr)))

\* fateLineFixed left out, as the model's readings may leave it: null
fateLineOmitted == Null

fateLineFixed ==
    Obj([ observation |-> Str("A subtle fate line emerges from the base of your palm, suggesting destiny is actively unfolding."),
          meaning |-> Str("Your life's direction is becoming clearer; trust the path that reveals itself.") ])

\* generateLocalReading with the streams mixed: the meaning of the life line
\* picked with the observations' index, the overall reading with the
\* meanings' index
generateLocalReadingMixedStreams(s, hand, focus) ==
    Obj([ heartLine |-> Obj([ observation |-> pick(s, heartObservations),
                              meaning |-> pick2(s, heartMeanings) ]),
          headLine |-> Obj([ observation |-> pick(s, headObservations),
                             meaning |-> pick2(s, headMeanings) ]),
          lifeLine |-> Obj([ observation |-> pick(s, lifeObservations),
                             meaning |-> pick(s, lifeMeanings) ]),
          fateLine |-> fateLineFixed,
          overallReading |-> pick2(s, overallReadings(hand, focus)),
          advice |-> pick(s, adviceList) ])

\* generateLocalReading(dominantHand, focusArea) with s the value of Date.now()
generateLocalReading(s, hand, focus) ==
    Obj([ heartLine |-> Obj([ observation |-> pick(s, heartObservations),
                              meaning |-> pick2(s, heartMeanings) ]),
          headLine |-> Obj([ observation |-> pick(s, headObservations),
                             meaning |-> pick2(s, headMeanings) ]),
          lifeLine |-> Obj([ observation |-> pick(s, lifeObservations),
                             meaning |-> pick2(s, lifeMeanings) ]),
          fateLine |-> fateLineFixed,
          overallReading |-> pick3(s, overallReadings(hand, focus)),
          advice |-> pick(s, adviceList) ])

-----------------------------------------------------------------------------
(* The model's raw text, as a sequence of tokens: a fence marker, the tag   *)
(* json, white space, prose that is no JSON, or a complete JSON document.   *)

\* the marker of three backquotes
FENCE == "[fence]"
TAG == "json"
NL == "\n"
SP == " "
PROSE == "Here is your reading:"
WhiteSpace == {NL, SP}

DocNames == {"{full}", "{fateNull}", "{partial}", "{noAdvice}", "null"}

ModelPair(o, m) == Obj([observation |-> Str(o), meaning |-> Str(m)])

\* the value each JSON document denotes
DocValue(d) ==
    CASE d = "{full}" ->
           Obj([ heartLine |-> ModelPair("heart seen", "heart means"),
                 headLine |-> ModelPair("head seen", "head means"),
                 lifeLine |-> ModelPair("life seen", "life means"),
                 fateLine |-> ModelPair("fate seen", "fate means"),
                 overallReading |-> Str("overall by the model"),
                 advice |-> Str("advice by the model") ])
      [] d = "{fateNull}" ->
           Obj([ heartLine |-> ModelPair("heart seen", "heart means"),
                 headLine |-> ModelPair("head seen", "head means"),
                 lifeLine |-> ModelPair("life seen", "life means"),
                 fateLine |-> Null,
                 overallReading |-> Str("overall by the model"),
                 advice |-> Str("advice by the model") ])
      [] d = "{partial}" ->
           Obj([ heartLine |-> Obj([observation |-> Str("heart seen")]),
                 headLine |-> ModelPair("head seen", "head means"),
                 lifeLine |-> Obj([observation |-> Str("life seen"), meaning |-> Null]),
                 fateLine |-> Null,
                 overallReading |-> Str("overall by the model"),
                 advice |-> Str("advice by the model") ])
      [] d = "{noAdvice}" ->
           Obj([ heartLine |-> ModelPair("heart seen", "heart means"),
                 headLine |-> ModelPair("head seen", "head means"),
                 lifeLine |-> ModelPair("life seen", "life means"),
                 fateLine |-> ModelPair("fate seen", "fate means"),
                 overallReading |-> Str("overall by the model") ])
      [] OTHER -> Null

MaxPad == 1

RECURSIVE Repeat(_, _)
Repeat(tok, n) == IF n = 0 THEN << >> ELSE << tok >> \o Repeat(tok, n - 1)

Pads == { Repeat(NL, n) : n \in 0 .. MaxPad }
Opens == { << >>, << FENCE >>, << FENCE, TAG >> }
Closes == { << >>, << FENCE >> }
Cores == { << d >> : d \in DocNames } \cup { << PROSE >>, << >> }

\* the texts the model may answer with
ModelTexts ==
    { p1 \o o \o p2 \o c \o p3 \o e \o p4 :
        p1 \in Pads, o \in Opens, p2 \in Pads, c \in Cores,
        p3 \in Pads, e \in Closes, p4 \in Pads }

RECURSIVE trimStart(_)
trimStart(t) ==
    IF t # << >> /\ Head(t) \in WhiteSpace THEN trimStart(Tail(t)) ELSE t

RECURSIVE trimEnd(_)
trimEnd(t) ==
    IF t # << >> /\ t[Len(t)] \in WhiteSpace
    THEN trimEnd(SubSeq(t, 1, Len(t) - 1)) ELSE t

\* String.prototype.trim
trim(t) == trimEnd(trimStart(t))

startsWith(t, prefix) ==
    Len(t) >= Len(prefix) /\ SubSeq(t, 1, Len(prefix)) = prefix

endsWith(t, suffix) ==
    Len(t) >= Len(suffix) /\ SubSeq(t, Len(t) - Len(suffix) + 1, Len(t)) = suffix

\* t.slice(n) and t.slice(0, -n), n counted in tokens
sliceFrom(t, n) == SubSeq(t, n + 1, Len(t))
sliceEnd(t, n) == SubSeq(t, 1, Len(t) - n)

\* JSON.parse: white space around one JSON document is accepted, all else
\* is a SyntaxError
JSONParses(t) == Len(trim(t)) = 1 /\ trim(t)[1] \in DocNames
JSONParse(t) == DocValue(trim(t)[1])

\* afterJsonFence slicing off the fence alone, the tag left in place
afterJsonFenceKeepsTag(t) == IF startsWith(t, << FENCE, TAG >>) THEN sliceFrom(t, 1) ELSE t

\* lines 233-237: the cleanup before the second parse
afterJsonFence(t) == IF startsWith(t, << FENCE, TAG >>) THEN sliceFrom(t, 2) ELSE t
afterFence(t) == IF startsWith(t, << FENCE >>) THEN sliceFrom(t, 1) ELSE t
beforeFence(t) == IF endsWith(t, << FENCE >>) THEN sliceEnd(t, 1) ELSE t
cleanedText(t) == trim(beforeFence(afterFence(afterJsonFence(trim(t)))))

\* the two parses of lines 227-241 for every text the model can return,
\* computed once: whether JSON.parse accepts the text, and what it returns
parseOf(t) == IF JSONParses(t) THEN [ok |-> TRUE, value |-> JSONParse(t)]
                               ELSE [ok |-> FALSE]
directParse == [t \in ModelTexts |-> parseOf(t)]
cleanedParse == [t \in ModelTexts |-> parseOf(cleanedText(t))]

-----------------------------------------------------------------------------
(* Inputs and the initial values of the state *)

PlaceholderKey == Str("your_gemini_api_key_here")
ApiKeys == { Undefined, PlaceholderKey, Str("a-configured-key") }

\* Offline without the comparison with the placeholder
OfflinePlaceholderNotRecognised(key) == ~Truthy(key)

\* the test of lines 143 (reading) and 54 (chat)
Offline(key) == ~Truthy(key) \/ key = PlaceholderKey

\* a request whose body request.json() cannot parse
Unparsable == [kind |-> "invalid"]

Hands == { Null, Str("left"), Str("right") }
FocusAreas == { Null, Str(""), Str("career") }
Images == { Undefined, Str(""), Str("data:image/jpeg;base64,AAAA"), Num(5) }

ReadingBodies ==
    { Unparsable, Null } \cup
    { Obj([image |-> i, dominantHand |-> h, focusArea |-> f]) :
        i \in Images, h \in Hands, f \in FocusAreas }

Err(m) == [kind |-> "error", val |-> m]
ModelErrors == { Err("503 Service Unavailable"), Err("fetch failed") }

\* what generateContent resolves to: a result whose response.text() gives the
\* text, or one whose response.text() throws (a blocked candidate)
TextResult(t) == [kind |-> "text", text |-> t]
BlockedResult == [kind |-> "blocked"]
ModelResults == { TextResult(t) : t \in ModelTexts } \cup { BlockedResult }

NoResult == [kind |-> "none"]
NoSeed == [hi |-> 0, mid |-> 0, lo |-> 0]
NoResponse == [status |-> 0, body |-> Undefined]

DefaultMaxRetries == 2
BaseDelay == 500

\* no second request and no page: one handler or function on its own
NoOther == [pc |-> "none"]
NoPage == [appState |-> "none"]
SingleRequest == other = NoOther /\ page = NoPage

InitCommon ==
    /\ dominantHand = Null
    /\ focusArea = Null
    /\ lastError = Null
    /\ calls = 0
    /\ inFlight = 0
    /\ waits = << >>
    /\ log = << >>
    /\ result = NoResult
    /\ thrown = Undefined
    /\ seed = NoSeed
    /\ response = NoResponse
    /\ sentHistory = Undefined
    /\ sentMessage = Undefined

-----------------------------------------------------------------------------
(* callGeminiWithRetry (part_001, lines 101-127) *)

\* GenerateContent with the loop test off by one (attempt <= maxRetries + 1)
GenerateContentOffByOne ==
    /\ pc = "loop"
    /\ attempt <= maxRetries + 1
    /\ calls' = calls + 1
    /\ inFlight' = inFlight + 1
    /\ pc' = "await_model"
    /\ UNCHANGED << apiKey, body, dominantHand, focusArea, maxRetries, attempt,
                    lastError, waits, log, result, thrown, seed, response,
                    sentHistory, sentMessage,
                    other, page >>

\* GenerateContent without the await: the call is issued and the loop goes on
GenerateContentNotAwaited ==
    /\ pc = "loop"
    /\ attempt <= maxRetries
    /\ calls' = calls + 1
    /\ inFlight' = inFlight + 1
    /\ attempt' = attempt + 1
    /\ pc' = "loop"
    /\ UNCHANGED << apiKey, body, dominantHand, focusArea, maxRetries,
                    lastError, waits, log, result, thrown, seed, response,
                    sentHistory, sentMessage,
                    other, page >>

\* the loop test passes and model.generateContent is called
GenerateContent ==
    /\ pc = "loop"
    /\ attempt <= maxRetries
    /\ calls' = calls + 1
    /\ inFlight' = inFlight + 1
    /\ pc' = "await_model"
    /\ UNCHANGED << apiKey, body, dominantHand, focusArea, maxRetries, attempt,
                    lastError, waits, log, result, thrown, seed, response,
                    sentHistory, sentMessage,
                    other, page >>

\* ModelFulfils without the return: the result is kept and the loop goes on
ModelFulfilsGoesOn ==
    /\ pc = "await_model"
    /\ \E r \in ModelResults : result' = r
    /\ inFlight' = inFlight - 1
    /\ attempt' = attempt + 1
    /\ pc' = "loop"
    /\ UNCHANGED << apiKey, body, dominantHand, focusArea, maxRetries,
                    lastError, calls, waits, log, thrown, seed, response,
                    sentHistory, sentMessage, other, page >>

\* the call resolves: return result
ModelFulfils ==
    /\ pc = "await_model"
    /\ \E r \in ModelResults : result' = r
    /\ inFlight' = inFlight - 1
    /\ pc' = "returned"
    /\ UNCHANGED << apiKey, body, dominantHand, focusArea, maxRetries, attempt,
                    lastError, calls, waits, log, thrown, seed, response,
                    sentHistory, sentMessage,
                    other, page >>

AttemptFailed(n, e) == [msg |-> "Gemini API attempt failed:", attempt |-> n, error |-> e]

\* ModelRejects waiting after every failed attempt, the last one included
ModelRejectsAlwaysWaits ==
    /\ pc = "await_model"
    /\ \E e \in ModelErrors :
         /\ lastError' = e
         /\ log' = Append(log, AttemptFailed(attempt, e))
    /\ inFlight' = inFlight - 1
    /\ waits' = Append(waits, BaseDelay * attempt)
    /\ pc' = "await_timer"
    /\ attempt' = attempt
    /\ UNCHANGED << apiKey, body, dominantHand, focusArea, maxRetries, calls,
                    result, thrown, seed, response, sentHistory, sentMessage,
                    other, page >>

\* ModelRejects keeping the first error: lastError is assigned once
ModelRejectsKeepsFirstError ==
    /\ pc = "await_model"
    /\ \E e \in ModelErrors :
         /\ lastError' = IF lastError = Null THEN e ELSE lastError
         /\ log' = Append(log, AttemptFailed(attempt, e))
    /\ inFlight' = inFlight - 1
    /\ IF attempt < maxRetries
       THEN /\ waits' = Append(waits, BaseDelay * attempt)
            /\ pc' = "await_timer"
            /\ attempt' = attempt
       ELSE /\ waits' = waits
            /\ pc' = "loop"
            /\ attempt' = attempt + 1
    /\ UNCHANGED << apiKey, body, dominantHand, focusArea, maxRetries, calls,
                    result, thrown, seed, response, sentHistory, sentMessage,
                    other, page >>

\* the call rejects: the catch block of lines 116-123
ModelRejects ==
    /\ pc = "await_model"
    /\ \E e \in ModelErrors :
         /\ lastError' = e
         /\ log' = Append(log, AttemptFailed(attempt, e))
    /\ inFlight' = inFlight - 1
    /\ IF attempt < maxRetries
       THEN /\ waits' = Append(waits, BaseDelay * attempt)
            /\ pc' = "await_timer"
            /\ attempt' = attempt
       ELSE /\ waits' = waits
            /\ pc' = "loop"
            /\ attempt' = attempt + 1
    /\ UNCHANGED << apiKey, body, dominantHand, focusArea, maxRetries, calls,
                    result, thrown, seed, response, sentHistory, sentMessage,
                    other, page >>

\* TimerFires going round again with the same attempt number
TimerFiresSameAttempt ==
    /\ pc = "await_timer"
    /\ attempt' = attempt
    /\ pc' = "loop"
    /\ UNCHANGED << apiKey, body, dominantHand, focusArea, maxRetries,
                    lastError, calls, inFlight, waits, log, result, thrown,
                    seed, response, sentHistory, sentMessage,
                    other, page >>

\* the setTimeout of line 121 fires and the loop goes on
TimerFires ==
    /\ pc = "await_timer"
    /\ attempt' = attempt + 1
    /\ pc' = "loop"
    /\ UNCHANGED << apiKey, body, dominantHand, focusArea, maxRetries,
                    lastError, calls, inFlight, waits, log, result, thrown,
                    seed, response, sentHistory, sentMessage,
                    other, page >>

\* the loop test fails: throw lastError
ThrowLastError ==
    /\ pc = "loop"
    /\ attempt > maxRetries
    /\ thrown' = lastError
    /\ pc' = "thrown"
    /\ UNCHANGED << apiKey, body, dominantHand, focusArea, maxRetries, attempt,
                    lastError, calls, inFlight, waits, log, result, seed,
                    response, sentHistory, sentMessage,
                    other, page >>

callGeminiWithRetry ==
    \/ GenerateContent
    \/ ModelFulfils
    \/ ModelRejects
    \/ TimerFires
    \/ ThrowLastError

\* callGeminiWithRetry on its own, for every maxRetries up to a bound
MaxRetriesBound == 3

InitRetry ==
    /\ SingleRequest
    /\ InitCommon
    /\ pc = "loop"
    /\ apiKey = Str("a-configured-key")
    /\ body = Undefined
    /\ maxRetries \in 1 .. MaxRetriesBound
    /\ attempt = 1

NextRetry == callGeminiWithRetry

SpecRetry == InitRetry /\ [][NextRetry]_vars

-----------------------------------------------------------------------------
(* POST of the reading endpoint (part_001, lines 129-257) *)

Respond(status, value) == [status |-> status, body |-> NextResponseJson(value)]

\* CatchReading synthesizing the fallback for an unset hand and focus
CatchReadingResets(e, hand, focus) ==
    /\ \E s \in Seeds :
         /\ seed' = s
         /\ response' = Respond(200, generateLocalReading(s, Null, Null))
    /\ log' = log \o << [msg |-> "Palm reading error:", error |-> e],
                        [msg |-> "Using local fallback reading generator"] >>
    /\ dominantHand' = hand
    /\ focusArea' = focus
    /\ pc' = "done"

\* the catch block of lines 249-256, entered with the error e while the
\* handler's locals hold hand and focus
CatchReading(e, hand, focus) ==
    /\ \E s \in Seeds :
         /\ seed' = s
         /\ response' = Respond(200, generateLocalReading(s, hand, focus))
    /\ log' = log \o << [msg |-> "Palm reading error:", error |-> e],
                        [msg |-> "Using local fallback reading generator"] >>
    /\ dominantHand' = hand
    /\ focusArea' = focus
    /\ pc' = "done"

\* line 134: request.json() rejects, before the locals are assigned
RequestJsonRejects ==
    /\ pc = "start"
    /\ body = Unparsable
    /\ CatchReading(Err("SyntaxError: request body is not JSON"), dominantHand, focusArea)
    /\ UNCHANGED << apiKey, body, maxRetries, attempt, lastError, calls,
                    inFlight, waits, result, thrown, sentHistory, sentMessage,
                    other, page >>

\* line 135: the body is the JSON value null, so body.image throws
BodyIsNull ==
    /\ pc = "start"
    /\ body = Null
    /\ CatchReading(Err("TypeError: cannot read properties of null"), dominantHand, focusArea)
    /\ UNCHANGED << apiKey, body, maxRetries, attempt, lastError, calls,
                    inFlight, waits, result, thrown, sentHistory, sentMessage,
                    other, page >>

\* lines 139-141
NoImage ==
    /\ pc = "start"
    /\ body.kind = "object"
    /\ ~Truthy(Get(body, "image"))
    /\ dominantHand' = Get(body, "dominantHand")
    /\ focusArea' = Get(body, "focusArea")
    /\ response' = [status |-> 400, body |-> Obj([error |-> Str("No image provided")])]
    /\ pc' = "done"
    /\ UNCHANGED << apiKey, body, maxRetries, attempt, lastError, calls,
                    inFlight, waits, log, result, thrown, seed, sentHistory,
                    sentMessage,
                    other, page >>

\* lines 143-147
OfflineReading ==
    /\ pc = "start"
    /\ body.kind = "object"
    /\ Truthy(Get(body, "image"))
    /\ Offline(apiKey)
    /\ dominantHand' = Get(body, "dominantHand")
    /\ focusArea' = Get(body, "focusArea")
    /\ \E s \in Seeds :
         /\ seed' = s
         /\ response' = Respond(200, generateLocalReading(s, dominantHand', focusArea'))
    /\ log' = Append(log, [msg |-> "No API key or default key, using local fallback"])
    /\ pc' = "done"
    /\ UNCHANGED << apiKey, body, maxRetries, attempt, lastError, calls,
                    inFlight, waits, result, thrown, sentHistory, sentMessage,
                    other, page >>

\* line 150: image is truthy and no string, so image.split throws
SplitThrows ==
    /\ pc = "start"
    /\ body.kind = "object"
    /\ Truthy(Get(body, "image"))
    /\ ~Offline(apiKey)
    /\ Get(body, "image").kind # "string"
    /\ CatchReading(Err("TypeError: image.split is not a function"),
                    Get(body, "dominantHand"), Get(body, "focusArea"))
    /\ UNCHANGED << apiKey, body, maxRetries, attempt, lastError, calls,
                    inFlight, waits, result, thrown, sentHistory, sentMessage,
                    other, page >>

\* lines 150-222: the prompt is built and callGeminiWithRetry is entered
\* with the default maxRetries
CallModel ==
    /\ pc = "start"
    /\ body.kind = "object"
    /\ Truthy(Get(body, "image"))
    /\ ~Offline(apiKey)
    /\ Get(body, "image").kind = "string"
    /\ dominantHand' = Get(body, "dominantHand")
    /\ focusArea' = Get(body, "focusArea")
    /\ maxRetries' = DefaultMaxRetries
    /\ attempt' = 1
    /\ lastError' = Null
    /\ pc' = "loop"
    /\ UNCHANGED << apiKey, body, calls, inFlight, waits, log, result, thrown,
                    seed, response, sentHistory, sentMessage,
                    other, page >>

\* line 225: response.text() throws
TextThrows ==
    /\ pc = "returned"
    /\ result = BlockedResult
    /\ CatchReading(Err("response.text() failed: candidate was blocked"),
                    dominantHand, focusArea)
    /\ UNCHANGED << apiKey, body, maxRetries, attempt, lastError, calls,
                    inFlight, waits, result, thrown, sentHistory, sentMessage,
                    other, page >>

\* DirectParse with the stages swapped: the cleanup is applied, and its
\* message logged, before the first parse
DirectParseAfterCleanup ==
    /\ pc = "returned"
    /\ result.kind = "text"
    /\ JSONParses(result.text)
    /\ log' = Append(log, [msg |-> "JSON parse error. Raw text:", text |-> result.text])
    /\ response' = Respond(200, JSONParse(cleanedText(result.text)))
    /\ pc' = "done"
    /\ UNCHANGED << apiKey, body, dominantHand, focusArea, maxRetries, attempt,
                    lastError, calls, inFlight, waits, result, thrown,
                    seed, sentHistory, sentMessage,
                    other, page >>

\* lines 227-229: the direct parse succeeds
DirectParse ==
    /\ pc = "returned"
    /\ result.kind = "text"
    /\ directParse[result.text].ok
    /\ response' = Respond(200, directParse[result.text].value)
    /\ pc' = "done"
    /\ UNCHANGED << apiKey, body, dominantHand, focusArea, maxRetries, attempt,
                    lastError, calls, inFlight, waits, log, result, thrown,
                    seed, sentHistory, sentMessage,
                    other, page >>

ParseErrorLogged(t) == [msg |-> "JSON parse error. Raw text:", text |-> t]

\* lines 230-241: the direct parse fails, the parse of the cleaned text succeeds
CleanedParse ==
    /\ pc = "returned"
    /\ result.kind = "text"
    /\ ~directParse[result.text].ok
    /\ cleanedParse[result.text].ok
    /\ log' = Append(log, ParseErrorLogged(result.text))
    /\ response' = Respond(200, cleanedParse[result.text].value)
    /\ pc' = "done"
    /\ UNCHANGED << apiKey, body, dominantHand, focusArea, maxRetries, attempt,
                    lastError, calls, inFlight, waits, result, thrown, seed,
                    sentHistory, sentMessage,
                    other, page >>

\* lines 242-247: both parses fail
ParseFails ==
    /\ pc = "returned"
    /\ result.kind = "text"
    /\ ~directParse[result.text].ok
    /\ ~cleanedParse[result.text].ok
    /\ log' = Append(log, ParseErrorLogged(result.text))
    /\ response' = Respond(500, Obj([ error |-> Str("Failed to parse oracle's response"),
                                      details |-> Text(result.text) ]))
    /\ pc' = "done"
    /\ UNCHANGED << apiKey, body, dominantHand, focusArea, maxRetries, attempt,
                    lastError, calls, inFlight, waits, result, thrown, seed,
                    sentHistory, sentMessage,
                    other, page >>

\* line 222 throws what callGeminiWithRetry threw
RetryThrown ==
    /\ pc = "thrown"
    /\ CatchReading(thrown, dominantHand, focusArea)
    /\ UNCHANGED << apiKey, body, maxRetries, attempt, lastError, calls,
                    inFlight, waits, result, thrown, sentHistory, sentMessage,
                    other, page >>

Init ==
    /\ SingleRequest
    /\ InitCommon
    /\ pc = "start"
    /\ apiKey \in ApiKeys
    /\ body \in ReadingBodies
    /\ maxRetries = 0
    /\ attempt = 0

Next ==
    \/ RequestJsonRejects
    \/ BodyIsNull
    \/ NoImage
    \/ OfflineReading
    \/ SplitThrows
    \/ CallModel
    \/ callGeminiWithRetry
    \/ TextThrows
    \/ DirectParse
    \/ CleanedParse
    \/ ParseFails
    \/ RetryThrown

Spec == Init /\ [][Next]_vars

-----------------------------------------------------------------------------
(* generateLocalReading on its own: the inputs are drawn at the start, the  *)
(* clock is read when the function is called                                *)

CallGenerateLocalReading ==
    /\ pc = "local"
    /\ \E s \in Seeds :
         /\ seed' = s
         /\ result' = generateLocalReading(s, dominantHand, focusArea)
    /\ pc' = "local_done"
    /\ UNCHANGED << apiKey, body, dominantHand, focusArea, maxRetries, attempt,
                    lastError, calls, inFlight, waits, log, thrown, response,
                    sentHistory, sentMessage,
                    other, page >>

InitLocal ==
    /\ SingleRequest
    /\ pc = "local"
    /\ apiKey = Undefined
    /\ body = Undefined
    /\ dominantHand \in Hands
    /\ focusArea \in FocusAreas
    /\ maxRetries = 0
    /\ attempt = 0
    /\ lastError = Null
    /\ calls = 0
    /\ inFlight = 0
    /\ waits = << >>
    /\ log = << >>
    /\ result = NoResult
    /\ thrown = Undefined
    /\ seed = NoSeed
    /\ response = NoResponse
    /\ sentHistory = Undefined
    /\ sentMessage = Undefined

NextLocal == CallGenerateLocalReading

SpecLocal == InitLocal /\ [][NextLocal]_vars

-----------------------------------------------------------------------------
(* Properties of the reading endpoint *)

\* the request carries an image
HasImage == body.kind = "object" /\ Truthy(Get(body, "image"))

NonEmptyString(v) == v.kind = "string" /\ v.val # ""

LineNames == {"heartLine", "headLine", "lifeLine", "fateLine"}

\* a line that is present and non-null has both observation and meaning
PairComplete(line) ==
    line \in {Undefined, Null} \/
    ( NonEmptyString(Get(line, "observation")) /\ NonEmptyString(Get(line, "meaning")) )

FieldPairInvariant(r) == \A k \in LineNames : PairComplete(Get(r, k))

\* every line, overallReading and advice carry non-empty text
FullyPopulated(r) ==
    /\ \A k \in LineNames :
         /\ NonEmptyString(Get(Get(r, k), "observation"))
         /\ NonEmptyString(Get(Get(r, k), "meaning"))
    /\ NonEmptyString(Get(r, "overallReading"))
    /\ NonEmptyString(Get(r, "advice"))

\* both parses of the model's text have failed
BothParsesFail ==
    /\ result.kind = "text"
    /\ ~JSONParses(result.text)
    /\ ~JSONParses(cleanedText(result.text))

\* the model's text was parsed, directly or after the cleanup
SomeParseSucceeds ==
    /\ result.kind = "text"
    /\ JSONParses(result.text) \/ JSONParses(cleanedText(result.text))

ParsedReading ==
    IF JSONParses(result.text) THEN JSONParse(result.text)
                               ELSE JSONParse(cleanedText(result.text))

\* the response is 200 with the reading generateLocalReading gives for the
\* clock value read and the given hand and focus
IsFallbackResponse(hand, focus) ==
    /\ response.status = 200
    /\ seed \in Seeds
    /\ response.body = NextResponseJson(generateLocalReading(seed, hand, focus))

\* C1: for a request with an image, every failure after validation (the model
\* call failing on all attempts, or model text that fails both parses) ends in
\* a 200 response holding the locally synthesized fallback Reading.
C1_FailuresEndInFallback ==
    ( pc = "done" /\ HasImage /\ (thrown # Undefined \/ BothParsesFail) )
        => IsFallbackResponse(dominantHand, focusArea)

\* C2: a request that carries no image is answered 400 with an error; no
\* model call and no fallback synthesis happens for it.
C2_NoImageIsRejected ==
    ( pc = "done" /\ ~HasImage )
        => /\ response.status = 400
           /\ Truthy(Get(response.body, "error"))
           /\ calls = 0
           /\ seed = NoSeed

\* C3: every Reading returned for a request with an image, on the model path
\* and on the fallback path, satisfies the field-pair invariant.
C3_FieldPairsComplete ==
    ( pc = "done" /\ HasImage /\ response.status = 200 )
        => FieldPairInvariant(response.body)

\* C4: for every clock value and every (dominantHand, focusArea),
\* generateLocalReading returns a fully populated Reading.
C4_LocalReadingFullyPopulated ==
    pc = "local_done" => FullyPopulated(result)

\* C5: callGeminiWithRetry makes at most maxRetries calls to the model; when it
\* throws, every one of the maxRetries calls has failed and no further call
\* was made.
C5_NeverOverRetries ==
    /\ calls <= maxRetries
    /\ pc = "thrown" => ( calls = maxRetries /\ Len(log) = maxRetries /\ inFlight = 0 )

\* maxRetries = 2 and the model has failed twice: thrown, the third call not made
C5_Witness ==
    /\ pc = "thrown"
    /\ maxRetries = 2
    /\ calls = 2
    /\ Len(log) = 2
    /\ thrown = lastError
    /\ thrown \in ModelErrors

\* C6: with the API key absent or equal to the placeholder, a request with an
\* image makes no call to the model and is answered 200 with the Reading
\* generateLocalReading gives for the request's dominantHand and focusArea.
C6_OfflineSkipsTheModel ==
    ( HasImage /\ (apiKey = Undefined \/ apiKey = Str("your_gemini_api_key_here")) )
        => /\ calls = 0
           /\ pc \in {"start", "done"}
           /\ pc = "done" =>
                IsFallbackResponse(Get(body, "dominantHand"), Get(body, "focusArea"))

C6_Witness ==
    /\ pc = "done"
    /\ HasImage
    /\ apiKey = Str("your_gemini_api_key_here")
    /\ Get(body, "dominantHand") = Str("left")
    /\ Get(body, "focusArea") = Str("career")
    /\ response.status = 200
    /\ calls = 0

\* C7: a model output that parses but lacks overallReading or advice is not
\* returned: the answer is a fallback Reading that has both.
C7_IncompleteOutputRejected ==
    ( /\ pc = "done"
      /\ SomeParseSucceeds
      /\ ~( Truthy(Get(ParsedReading, "overallReading")) /\ Truthy(Get(ParsedReading, "advice")) ) )
        => /\ IsFallbackResponse(dominantHand, focusArea)
           /\ NonEmptyString(Get(response.body, "overallReading"))
           /\ NonEmptyString(Get(response.body, "advice"))

\* C8: no response body contains the raw text of the model when that text
\* could not be turned into a Reading.
C8_RawTextNotReturned ==
    ( pc = "done" /\ BothParsesFail )
        => ( response.body.kind = "object" =>
               \A k \in DOMAIN response.body.val :
                  response.body.val[k] # Text(result.text) )

-----------------------------------------------------------------------------
(* generateLocalChatResponse (part_000, lines 5-41).  A message is a         *)
(* sequence of characters.                                                  *)

UpperCaseLetters == << "A", "B", "C", "D", "E", "F", "G", "H", "I", "J", "K", "L", "M", "N", "O", "P", "Q", "R", "S", "T", "U", "V", "W", "X", "Y", "Z" >>
LowerCaseLetters == << "a", "b", "c", "d", "e", "f", "g", "h", "i", "j", "k", "l", "m", "n", "o", "p", "q", "r", "s", "t", "u", "v", "w", "x", "y", "z" >>

toLowerCaseChar(c) ==
    IF \E i \in 1 .. Len(UpperCaseLetters) : UpperCaseLetters[i] = c
    THEN LowerCaseLetters[CHOOSE i \in 1 .. Len(UpperCaseLetters) : UpperCaseLetters[i] = c]
    ELSE c

\* String.prototype.toLowerCase
toLowerCase(t) == [i \in 1 .. Len(t) |-> toLowerCaseChar(t[i])]

\* String.prototype.includes
includes(t, w) ==
    \E i \in 1 .. (Len(t) - Len(w) + 1) : SubSeq(t, i, i + Len(w) - 1) = w

responses ==
  [
    career |->
      << "The lines of your palm suggest a shift in your professional energy is approaching.",
         "Your head line indicates a sharp mind that will lead you to success if you trust your analytical gifts.",
         "The spirits see a path of growth where your unique talents will finally be recognized." >>,
    love |->
      << "Your heart line speaks of deep emotional potential and the beauty of connection.",
         "The mounts of your palm suggest that being open to vulnerability will bring the harmony you seek.",
         "A warm energy surrounds your emotional life--patience will reveal the true depth of your heart's journey." >>,
    destiny |->
      << "Destiny is not a fixed path, but a tapestry you weave with every choice.",
         "The cosmic energy around you is vibrant; the spirits are guiding you toward your true purpose.",
         "Your fate line, though subtle, shows a soul that is learning to command its own future." >>,
    general |->
      << "The Oracle hears your query, though the spirit realm is currently clouded with shadows.",
         "Trust in the wisdom already written in the lines of your palm.",
         "Seek the answers within; your heart already knows the truth you are searching for.",
         "The stars suggest that now is a time for reflection rather than action." >>
  ]

\* category with the love branch tested before the career branch
categoryLoveFirst(msg) ==
    IF \/ includes(msg, << "l", "o", "v", "e" >>)
       \/ includes(msg, << "h", "e", "a", "r", "t" >>)
       \/ includes(msg, << "r", "e", "l", "a", "t", "i", "o", "n", "s", "h", "i", "p" >>)
       \/ includes(msg, << "m", "a", "r", "r", "i", "a", "g", "e" >>)
    THEN "love"
    ELSE IF \/ includes(msg, << "j", "o", "b" >>)
            \/ includes(msg, << "c", "a", "r", "e", "e", "r" >>)
            \/ includes(msg, << "w", "o", "r", "k" >>)
            \/ includes(msg, << "m", "o", "n", "e", "y" >>)
    THEN "career"
    ELSE IF \/ includes(msg, << "f", "a", "t", "e" >>)
            \/ includes(msg, << "d", "e", "s", "t", "i", "n", "y" >>)
            \/ includes(msg, << "f", "u", "t", "u", "r", "e" >>)
            \/ includes(msg, << "l", "i", "f", "e" >>)
    THEN "destiny"
    ELSE "general"

\* the if-chain of lines 32-40 on the lowercased message
category(msg) ==
    IF \/ includes(msg, << "j", "o", "b" >>)
       \/ includes(msg, << "c", "a", "r", "e", "e", "r" >>)
       \/ includes(msg, << "w", "o", "r", "k" >>)
       \/ includes(msg, << "m", "o", "n", "e", "y" >>)
    THEN "career"
    ELSE IF \/ includes(msg, << "l", "o", "v", "e" >>)
            \/ includes(msg, << "h", "e", "a", "r", "t" >>)
            \/ includes(msg, << "r", "e", "l", "a", "t", "i", "o", "n", "s", "h", "i", "p" >>)
            \/ includes(msg, << "m", "a", "r", "r", "i", "a", "g", "e" >>)
    THEN "love"
    ELSE IF \/ includes(msg, << "f", "a", "t", "e" >>)
            \/ includes(msg, << "d", "e", "s", "t", "i", "n", "y" >>)
            \/ includes(msg, << "f", "u", "t", "u", "r", "e" >>)
            \/ includes(msg, << "l", "i", "f", "e" >>)
    THEN "destiny"
    ELSE "general"

\* Math.random() is k / RandomSteps for some k in 0 .. RandomSteps - 1
RandomSteps == 4
RandomDraws == 0 .. (RandomSteps - 1)

\* floorRandomTimes with Math.ceil in the place of Math.floor
ceilRandomTimes(k, n) == (k * n + RandomSteps - 1) \div RandomSteps

\* Math.floor(Math.random() * n)
floorRandomTimes(k, n) == (k * n) \div RandomSteps

\* message.toLowerCase() throws when message is no string
toLowerCaseThrows(message) == message.kind # "text"

\* the value returned for a string message and the random draw k
generateLocalChatResponse(message, k) ==
    LET pool == responses[category(toLowerCase(message.val))]
    IN  ArrayAt(pool, floorRandomTimes(k, Len(pool)))

-----------------------------------------------------------------------------
(* generateLocalChatResponse on its own, over messages put together from    *)
(* a vocabulary                                                             *)

WhatAboutMyJob == << "W", "h", "a", "t", " ", "a", "b", "o", "u", "t", " ", "m", "y", " ", "j", "o", "b", "?" >>
WillIFindLove == << "W", "i", "l", "l", " ", "I", " ", "f", "i", "n", "d", " ", "l", "o", "v", "e", "?" >>
TellMeAboutMyDestiny == << "T", "e", "l", "l", " ", "m", "e", " ", "a", "b", "o", "u", "t", " ", "m", "y", " ", "d", "e", "s", "t", "i", "n", "y" >>
Hello == << "H", "e", "l", "l", "o" >>
ExampleMessages == { WhatAboutMyJob, WillIFindLove, TellMeAboutMyDestiny, Hello }

Vocabulary ==
    { << "J", "O", "B" >>,
      << "C", "a", "r", "e", "e", "r" >>,
      << "w", "o", "r", "k" >>,
      << "M", "o", "n", "e", "y" >>,
      << "l", "o", "v", "e" >>,
      << "H", "E", "A", "R", "T" >>,
      << "r", "e", "l", "a", "t", "i", "o", "n", "s", "h", "i", "p" >>,
      << "M", "a", "r", "r", "i", "a", "g", "e" >>,
      << "f", "a", "t", "e" >>,
      << "D", "E", "S", "T", "I", "N", "Y" >>,
      << "f", "u", "t", "u", "r", "e" >>,
      << "L", "i", "f", "e" >>,
      << "h", "e", "l", "l", "o", " " >>,
      << " ", "m", "y" >>,
      << "j", "o" >> }

MaxWords == 2

RECURSIVE Phrases(_)
Phrases(n) ==
    IF n = 0 THEN { << >> }
    ELSE LET shorter == Phrases(n - 1)
         IN  shorter \cup { p \o w : p \in shorter, w \in Vocabulary }

Messages == ExampleMessages \cup (Phrases(MaxWords) \ { << >> })

CallGenerateLocalChatResponse ==
    /\ pc = "local_chat"
    /\ \E k \in RandomDraws :
         result' = generateLocalChatResponse(Get(body, "message"), k)
    /\ pc' = "local_chat_done"
    /\ UNCHANGED << apiKey, body, dominantHand, focusArea, maxRetries, attempt,
                    lastError, calls, inFlight, waits, log, thrown, seed,
                    response, sentHistory, sentMessage,
                    other, page >>

InitLocalChat ==
    /\ SingleRequest
    /\ InitCommon
    /\ pc = "local_chat"
    /\ apiKey = Undefined
    /\ body \in { Obj([message |-> Text(m)]) : m \in Messages }
    /\ maxRetries = 0
    /\ attempt = 0

NextLocalChat == CallGenerateLocalChatResponse

SpecLocalChat == InitLocalChat /\ [][NextLocalChat]_vars

-----------------------------------------------------------------------------
(* POST of the chat endpoint (part_000, lines 45-102) *)

Turn(role, content) == Obj([role |-> Str(role), content |-> Str(content)])

ChatMessages ==
    { Undefined, Text(<< >>), Num(5) } \cup { Text(m) : m \in ExampleMessages }
ChatReadings == { Undefined, Null, DocValue("{full}") }
ChatHistories ==
    { Undefined,
      Arr(<< >>),
      Arr(<< Turn("user", "What does my heart line say?") >>),
      Arr(<< Turn("user", "What does my heart line say?"),
             Turn("assistant", "The spirits see devotion.") >>),
      Arr(<< Turn("assistant", "Welcome, seeker."),
             Turn("system", "Be brief."),
             Obj([content |-> Str("a turn without a role")]) >>),
      Arr(<< Null >>),
      Str("no array") }

ChatBodies ==
    { Unparsable, Null } \cup
    { Obj([message |-> m, reading |-> r, chatHistory |-> h]) :
        m \in ChatMessages, r \in ChatReadings, h \in ChatHistories }

ChatReplies == { Str("The lines of destiny favour you."), Str("") }

\* historyEntry passing the role through unmapped
historyEntryKeepsRole(turn) ==
    Obj([ role |-> Get(turn, "role"),
          parts |-> Arr(<< Obj([text |-> Get(turn, "content")]) >>) ])

\* lines 78-81: the callback of chatHistory.map
historyEntry(turn) ==
    Obj([ role |-> IF Get(turn, "role") = Str("user") THEN Str("user") ELSE Str("model"),
          parts |-> Arr(<< Obj([text |-> Get(turn, "content")]) >>) ])

\* line 77: chatHistory || []
historyOrEmpty(h) == IF Truthy(h) THEN h ELSE Arr(<< >>)

\* lines 77-81 throw: the value has no map, or msg.role is read off null
historyThrows(h) ==
    IF historyOrEmpty(h).kind # "array" THEN TRUE
    ELSE \E i \in 1 .. Len(historyOrEmpty(h).val) :
            historyOrEmpty(h).val[i] \in {Null, Undefined}

history(h) ==
    Arr([i \in 1 .. Len(historyOrEmpty(h).val) |-> historyEntry(historyOrEmpty(h).val[i])])

ChatReply(text) == [status |-> 200, body |-> Obj([response |-> text])]

\* the catch block of lines 93-101, entered with the error e: the call of
\* generateLocalChatResponse in it is covered by no try
CatchChat(e) ==
    /\ log' = log \o << [msg |-> "Chat error:", error |-> e],
                        [msg |-> "Using local chat fallback after error"] >>
    /\ IF toLowerCaseThrows(Get(body, "message"))
       THEN /\ thrown' = Err("TypeError: message.toLowerCase is not a function")
            /\ response' = response
            /\ pc' = "escaped"
       ELSE /\ \E k \in RandomDraws :
                 response' = ChatReply(generateLocalChatResponse(Get(body, "message"), k))
            /\ thrown' = thrown
            /\ pc' = "done"

\* line 46: request.json() rejects, outside the try
ChatJsonRejects ==
    /\ pc = "chat_start"
    /\ body = Unparsable
    /\ thrown' = Err("SyntaxError: request body is not JSON")
    /\ pc' = "escaped"
    /\ UNCHANGED << apiKey, body, dominantHand, focusArea, maxRetries, attempt,
                    lastError, calls, inFlight, waits, log, result, seed,
                    response, sentHistory, sentMessage,
                    other, page >>

\* line 47: the body is the JSON value null and cannot be destructured
ChatBodyIsNull ==
    /\ pc = "chat_start"
    /\ body = Null
    /\ thrown' = Err("TypeError: cannot destructure null")
    /\ pc' = "escaped"
    /\ UNCHANGED << apiKey, body, dominantHand, focusArea, maxRetries, attempt,
                    lastError, calls, inFlight, waits, log, result, seed,
                    response, sentHistory, sentMessage,
                    other, page >>

\* lines 50-52
NoMessage ==
    /\ pc = "chat_start"
    /\ body.kind = "object"
    /\ ~Truthy(Get(body, "message"))
    /\ response' = [status |-> 400, body |-> Obj([error |-> Str("No message provided")])]
    /\ pc' = "done"
    /\ UNCHANGED << apiKey, body, dominantHand, focusArea, maxRetries, attempt,
                    lastError, calls, inFlight, waits, log, result, thrown,
                    seed, sentHistory, sentMessage,
                    other, page >>

\* lines 54-57, the message being a string
OfflineChat ==
    /\ pc = "chat_start"
    /\ body.kind = "object"
    /\ Truthy(Get(body, "message"))
    /\ Offline(apiKey)
    /\ ~toLowerCaseThrows(Get(body, "message"))
    /\ log' = Append(log, [msg |-> "No API key, using local chat fallback"])
    /\ \E k \in RandomDraws :
         response' = ChatReply(generateLocalChatResponse(Get(body, "message"), k))
    /\ pc' = "done"
    /\ UNCHANGED << apiKey, body, dominantHand, focusArea, maxRetries, attempt,
                    lastError, calls, inFlight, waits, result, thrown, seed,
                    sentHistory, sentMessage,
                    other, page >>

\* lines 54-57, the message being no string: generateLocalChatResponse throws
\* in the try block and the catch block is entered
OfflineChatThrows ==
    /\ pc = "chat_start"
    /\ body.kind = "object"
    /\ Truthy(Get(body, "message"))
    /\ Offline(apiKey)
    /\ toLowerCaseThrows(Get(body, "message"))
    /\ LET logged == Append(log, [msg |-> "No API key, using local chat fallback"])
           e == Err("TypeError: message.toLowerCase is not a function")
       IN  log' = logged \o << [msg |-> "Chat error:", error |-> e],
                               [msg |-> "Using local chat fallback after error"] >>
    /\ thrown' = Err("TypeError: message.toLowerCase is not a function")
    /\ pc' = "escaped"
    /\ UNCHANGED << apiKey, body, dominantHand, focusArea, maxRetries, attempt,
                    lastError, calls, inFlight, waits, result, seed, response,
                    sentHistory, sentMessage,
                    other, page >>

\* lines 77-81 throw
HistoryThrows ==
    /\ pc = "chat_start"
    /\ body.kind = "object"
    /\ Truthy(Get(body, "message"))
    /\ ~Offline(apiKey)
    /\ historyThrows(Get(body, "chatHistory"))
    /\ CatchChat(Err("TypeError: chatHistory cannot be mapped"))
    /\ UNCHANGED << apiKey, body, dominantHand, focusArea, maxRetries, attempt,
                    lastError, calls, inFlight, waits, result, seed,
                    sentHistory, sentMessage,
                    other, page >>

\* lines 59-87: the chat is started with the mapped history and the message
\* is sent
SendMessage ==
    /\ pc = "chat_start"
    /\ body.kind = "object"
    /\ Truthy(Get(body, "message"))
    /\ ~Offline(apiKey)
    /\ ~historyThrows(Get(body, "chatHistory"))
    /\ sentHistory' = history(Get(body, "chatHistory"))
    /\ sentMessage' = Get(body, "message")
    /\ calls' = calls + 1
    /\ inFlight' = inFlight + 1
    /\ pc' = "chat_await"
    /\ UNCHANGED << apiKey, body, dominantHand, focusArea, maxRetries, attempt,
                    lastError, waits, log, result, thrown, seed, response,
                    other, page >>

\* lines 88-91
ChatFulfils ==
    /\ pc = "chat_await"
    /\ \E t \in ChatReplies :
         /\ result' = t
         /\ response' = ChatReply(t)
    /\ inFlight' = inFlight - 1
    /\ pc' = "done"
    /\ UNCHANGED << apiKey, body, dominantHand, focusArea, maxRetries, attempt,
                    lastError, calls, waits, log, thrown, seed, sentHistory,
                    sentMessage,
                    other, page >>

\* sendMessage rejects, or response.text() throws
ChatRejects ==
    /\ pc = "chat_await"
    /\ \E e \in ModelErrors : CatchChat(e)
    /\ inFlight' = inFlight - 1
    /\ UNCHANGED << apiKey, body, dominantHand, focusArea, maxRetries, attempt,
                    lastError, calls, waits, result, seed, sentHistory,
                    sentMessage,
                    other, page >>

InitChat ==
    /\ SingleRequest
    /\ InitCommon
    /\ pc = "chat_start"
    /\ apiKey \in ApiKeys
    /\ body \in ChatBodies
    /\ maxRetries = 0
    /\ attempt = 0

NextChat ==
    \/ ChatJsonRejects
    \/ ChatBodyIsNull
    \/ NoMessage
    \/ OfflineChat
    \/ OfflineChatThrows
    \/ HistoryThrows
    \/ SendMessage
    \/ ChatFulfils
    \/ ChatRejects

SpecChat == InitChat /\ [][NextChat]_vars


-----------------------------------------------------------------------------
(* Properties of the chat endpoint and of generateLocalChatResponse *)

\* the chat request carries a message
HasMessage == body.kind = "object" /\ Truthy(Get(body, "message"))

ChatHandlerEnded == pc \in {"done", "escaped"}

\* C9: every chat request whose message is present is answered 200 with
\* {response: text}; no exception escapes the handler.
C9_ChatAlwaysAnswers ==
    ( ChatHandlerEnded /\ HasMessage )
        => /\ pc = "done"
           /\ thrown = Undefined
           /\ response.status = 200
           /\ Get(response.body, "response").kind = "string"

\* what remains of C9 for a message that is a string: answered 200 with a text
ChatStringMessageAnswered ==
    ( ChatHandlerEnded /\ HasMessage /\ Get(body, "message").kind = "text" )
        => /\ pc = "done"
           /\ thrown = Undefined
           /\ response.status = 200
           /\ Get(response.body, "response").kind = "string"

CareerKeywords == { << "j", "o", "b" >>, << "c", "a", "r", "e", "e", "r" >>, << "w", "o", "r", "k" >>, << "m", "o", "n", "e", "y" >> }
LoveKeywords == { << "l", "o", "v", "e" >>, << "h", "e", "a", "r", "t" >>, << "r", "e", "l", "a", "t", "i", "o", "n", "s", "h", "i", "p" >>, << "m", "a", "r", "r", "i", "a", "g", "e" >> }
DestinyKeywords == { << "f", "a", "t", "e" >>, << "d", "e", "s", "t", "i", "n", "y" >>, << "f", "u", "t", "u", "r", "e" >>, << "l", "i", "f", "e" >> }

\* w occurs in m when the case of m's letters is ignored
OccursIgnoringCase(m, w) ==
    \E i \in 1 .. (Len(m) - Len(w) + 1) :
       \A j \in 1 .. Len(w) : toLowerCaseChar(m[i + j - 1]) = w[j]

MentionsAny(m, keywords) == \E w \in keywords : OccursIgnoringCase(m, w)

\* the category the priority order career, love, destiny, general gives m
PriorityCategory(m) ==
    CASE MentionsAny(m, CareerKeywords) -> "career"
      [] ~MentionsAny(m, CareerKeywords) /\ MentionsAny(m, LoveKeywords) -> "love"
      [] /\ ~MentionsAny(m, CareerKeywords)
         /\ ~MentionsAny(m, LoveKeywords)
         /\ MentionsAny(m, DestinyKeywords) -> "destiny"
      [] OTHER -> "general"

PoolOf(c) == { Str(responses[c][i]) : i \in 1 .. Len(responses[c]) }

\* C10: the reply is a line of the category that the priority order career,
\* love, destiny, general gives the message, keywords being matched as
\* substrings regardless of case; the four example messages are classified
\* career, love, destiny and general.
C10_ClassificationPriority ==
    pc = "local_chat_done" =>
        LET m == Get(body, "message").val
        IN  /\ result \in PoolOf(PriorityCategory(m))
            /\ m = WhatAboutMyJob => result \in PoolOf("career")
            /\ m = WillIFindLove => result \in PoolOf("love")
            /\ m = TellMeAboutMyDestiny => result \in PoolOf("destiny")
            /\ m = Hello => result \in PoolOf("general")

\* a message with keywords of three categories, in capitals, answered as career
C10_Witness ==
    /\ pc = "local_chat_done"
    /\ Get(body, "message").val = << "L", "i", "f", "e", "J", "O", "B" >>
    /\ result \in PoolOf("career")

-----------------------------------------------------------------------------
(* Further properties of generateLocalReading *)

\* C11: at every clock value, the overallReading of
\* generateLocalReading("left", "career") differs from the overallReading
\* of generateLocalReading(null, null) at the same clock value.
C11_LeftCareerDiffersFromDefault ==
    ( pc = "local_done" /\ dominantHand = Str("left") /\ focusArea = Str("career") )
        => Get(result, "overallReading")
             # Get(generateLocalReading(seed, Null, Null), "overallReading")

-----------------------------------------------------------------------------
(* Further properties of the reading endpoint: the two parse stages *)

\* the texts that hold the JSON document d and white space only
Unfenced(d) == { p1 \o << d >> \o p2 : p1 \in Pads, p2 \in Pads }

\* the same document between a leading fence, tagged or not, and a trailing
\* fence, with optional white space around the document and around the whole
Fenced(d) ==
    { p1 \o o \o p2 \o << d >> \o p3 \o << FENCE >> \o p4 :
        p1 \in Pads, o \in { << FENCE, TAG >>, << FENCE >> }, p2 \in Pads,
        p3 \in Pads, p4 \in Pads }

\* C12: a model text that holds a JSON document wrapped in fence markers is
\* answered with the same response as the text that holds the document
\* unwrapped: status 200 and the document's value, which the text determines
\* through the document alone.
C12_FencedSameAsUnfenced ==
    \A d \in DocNames :
        ( pc = "done" /\ result.kind = "text"
          /\ result.text \in Fenced(d) \cup Unfenced(d) )
            => response = [status |-> 200, body |-> DocValue(d)]

C12_Witness ==
    /\ pc = "done"
    /\ result = TextResult(<< FENCE, TAG, NL, "{full}", NL, FENCE >>)
    /\ response = [status |-> 200, body |-> DocValue("{full}")]

\* the cleanup stage was entered: its first statement logs the raw text
CleanupEntered ==
    \E i \in 1 .. Len(log) : log[i].msg = "JSON parse error. Raw text:"

\* C13: the parse stages run in order and stop at the first success. A text
\* that is a JSON document (white space around it allowed) is answered 200
\* with exactly the document's value and the cleanup stage is not entered;
\* the cleanup stage is entered only for a text that is no JSON document.
C13_StagesInOrder ==
    ( pc = "done" /\ result.kind = "text" )
        => /\ \A d \in DocNames :
                result.text \in Unfenced(d)
                    => /\ response = [status |-> 200, body |-> DocValue(d)]
                       /\ ~CleanupEntered
           /\ CleanupEntered => \A d \in DocNames : result.text \notin Unfenced(d)

C13_Witness ==
    /\ pc = "done"
    /\ result = TextResult(<< "{fateNull}", NL >>)
    /\ response = [status |-> 200, body |-> DocValue("{fateNull}")]
    /\ Get(response.body, "fateLine") = Null
    /\ ~CleanupEntered

-----------------------------------------------------------------------------
(* Further properties of callGeminiWithRetry *)

\* the attempts that have failed so far: each one is logged as it fails
FailedAttempts == Len(log)

\* C14: the backoff is linear. The wait started after the failure of attempt
\* i, i < maxRetries, is 500 * i milliseconds, attempt i + 1 is made after
\* exactly i waits, and no wait follows the failure of attempt maxRetries:
\* the throw comes after maxRetries - 1 waits.
C14_LinearBackoff ==
    /\ \A i \in 1 .. Len(waits) : waits[i] = 500 * i
    /\ pc = "await_timer" => Len(waits) = attempt /\ attempt < maxRetries
    /\ pc = "await_model" => Len(waits) = attempt - 1
    /\ FailedAttempts < maxRetries => Len(waits) = FailedAttempts
    /\ FailedAttempts >= maxRetries => Len(waits) = maxRetries - 1
    /\ pc = "thrown" => Len(waits) = maxRetries - 1

C14_Witness ==
    /\ pc = "thrown"
    /\ maxRetries = 3
    /\ waits = << 500, 1000 >>

\* the model calls that have ended in a rejection
RejectedCalls == calls - inFlight - (IF pc = "returned" THEN 1 ELSE 0)

\* C15: when every attempt has failed, the value thrown is the error of the
\* last attempt, and each failed attempt is logged with its attempt number
\* as soon as it fails, before the next attempt and before the throw.
C15_LastErrorThrownAllLogged ==
    /\ Len(log) = RejectedCalls
    /\ \A i \in 1 .. Len(log) :
          /\ log[i].msg = "Gemini API attempt failed:"
          /\ log[i].attempt = i
    /\ pc = "thrown" => /\ Len(log) = maxRetries
                        /\ thrown = log[maxRetries].error

C15_Witness ==
    /\ pc = "thrown"
    /\ maxRetries = 2
    /\ log[1].error = Err("503 Service Unavailable")
    /\ log[2].error = Err("fetch failed")
    /\ thrown = Err("fetch failed")

\* what holds in every state of a reading request: a call is in flight
\* only while the handler awaits it, and it is then the only one
OneCallInFlight ==
    /\ inFlight \in {0, 1}
    /\ inFlight = 1 <=> pc = "await_model"
    /\ pc = "await_model" => calls = attempt

\* a step that starts a model call: no call is in flight, no timer is
\* pending, and every earlier call has failed and has been followed by a wait
CallStartsAfterFailureAndWait ==
    calls' # calls
        => /\ calls' = calls + 1
           /\ inFlight = 0
           /\ pc = "loop"
           /\ Len(log) = calls
           /\ Len(waits) = calls

\* C16: within one reading request the model attempts are sequential: at
\* most one call is in flight at any time, and attempt i + 1 starts only
\* after attempt i has failed and the wait after it has elapsed.
C16_AttemptsSequential ==
    []OneCallInFlight /\ [][CallStartsAfterFailureAndWait]_vars

C16_Witness ==
    /\ pc = "await_model"
    /\ attempt = 2
    /\ calls = 2
    /\ inFlight = 1
    /\ Len(log) = 1
    /\ waits = << 500 >>

-----------------------------------------------------------------------------
(* Further properties of the chat endpoint *)

\* page.tsx, lines 181-189: the body sendChatMessage posts. chatMessages is
\* the state the callback closed over, the turns before userMessage
sendChatMessageBody(userMessage, reading, chatMessages) ==
    Obj([ message |-> userMessage,
          reading |-> reading,
          chatHistory |-> Arr(chatMessages) ])

\* the turns of the request's chatHistory, none when it is absent
RequestTurns ==
    IF Get(body, "chatHistory").kind = "array"
    THEN Get(body, "chatHistory").val ELSE << >>

\* sendMessage was called: the model path was taken
OnChatModelPath == sentMessage # Undefined

\* C18: on the chat model path the history given to startChat has the
\* length and the order of the request's chatHistory, turn i carries the
\* content of request turn i, its role is "user" when the request's is
\* "user" and "model" otherwise, and the new message is what sendMessage
\* is given, once, outside the history.
C18_HistoryReplayedInOrder ==
    OnChatModelPath
        => /\ sentHistory.kind = "array"
           /\ Len(sentHistory.val) = Len(RequestTurns)
           /\ \A i \in 1 .. Len(RequestTurns) :
                 /\ Get(sentHistory.val[i], "parts")
                      = Arr(<< Obj([text |-> Get(RequestTurns[i], "content")]) >>)
                 /\ Get(sentHistory.val[i], "role")
                      = IF Get(RequestTurns[i], "role") = Str("user")
                        THEN Str("user") ELSE Str("model")
           /\ sentMessage = Get(body, "message")
           /\ calls = 1

C18_Witness ==
    /\ pc = "chat_await"
    /\ body = sendChatMessageBody(Text(WillIFindLove), DocValue("{full}"),
                  << Turn("assistant", "Welcome, seeker."),
                     Turn("system", "Be brief."),
                     Obj([content |-> Str("a turn without a role")]) >>)
    /\ Len(sentHistory.val) = 3
    /\ Get(sentHistory.val[1], "role") = Str("model")
    /\ Get(sentHistory.val[2], "role") = Str("model")
    /\ Get(sentHistory.val[3], "role") = Str("model")
    /\ Get(sentHistory.val[3], "parts")
         = Arr(<< Obj([text |-> Str("a turn without a role")]) >>)
    /\ sentMessage = Text(WillIFindLove)

\* the reply of lines 50-52
NoMessageReply == [status |-> 400, body |-> Obj([error |-> Str("No message provided")])]

\* C19: a chat request whose message is missing or empty is answered 400
\* with an error, whatever the credentials, and no model call and no
\* fallback reply is made for it.
C19_NoMessageIsRejected ==
    ( ChatHandlerEnded /\ ~HasMessage )
        => /\ pc = "done"
           /\ response.status = 400
           /\ Get(response.body, "error").kind = "string"
           /\ Get(response.body, "response") = Undefined
           /\ calls = 0

\* what remains of C19 when the body is a JSON object: 400, no call, no reply
ChatObjectWithoutMessageRejected ==
    ( ChatHandlerEnded /\ body.kind = "object" /\ ~Truthy(Get(body, "message")) )
        => /\ pc = "done"
           /\ response = NoMessageReply
           /\ calls = 0
           /\ log = << >>

-----------------------------------------------------------------------------
(* The fate line of generateLocalReading *)

\* C20: every Reading generateLocalReading returns has a fateLine that is
\* not null and that carries one fixed observation and one fixed meaning,
\* whatever the clock value, dominantHand and focusArea.
C20_FateLineFixed ==
    pc = "local_done"
        => /\ Get(result, "fateLine") # Null
           /\ Get(result, "fateLine") # Undefined
           /\ Get(Get(result, "fateLine"), "observation")
                = Str("A subtle fate line emerges from the base of your palm, suggesting destiny is actively unfolding.")
           /\ Get(Get(result, "fateLine"), "meaning")
                = Str("Your life's direction is becoming clearer; trust the path that reveals itself.")

\* a call at a clock value whose bit 31 is set, where the picked meanings
\* are undefined, with a hand and a focus given
C20_Witness ==
    /\ pc = "local_done"
    /\ ToInt32(seed) < 0
    /\ dominantHand = Str("right")
    /\ focusArea = Str("career")
    /\ Get(Get(result, "fateLine"), "meaning")
         = Str("Your life's direction is becoming clearer; trust the path that reveals itself.")

-----------------------------------------------------------------------------
(* The index streams of generateLocalReading *)

\* the three indices JavaScript computes from the clock value s for a pool
\* of n entries: s % n on the number itself, (s >> 4) % n and (s >> 8) % n
\* on its low 32 bits read as a signed integer
StreamA(s, n) == SeedMod(s, n)
StreamB(s, n) == JSRem(ToInt32(s) \div 16, n)
StreamC(s, n) == JSRem(ToInt32(s) \div 256, n)

\* the entry of pool at the 0-based index i, when there is one
Entry(pool, i) == IF i \in 0 .. Len(pool) - 1 THEN Str(pool[i + 1]) ELSE Undefined

Line(r, name) == Get(r, name)

\* C21: all selections derive from the one clock value through three index
\* streams. Each observation is the entry of its own line's observation
\* pool at stream A, each meaning the entry of its own line's meaning pool
\* at stream B, the overall reading the entry of the overall pool at stream
\* C and the advice the entry of the advice pool at stream A, each index
\* taken modulo the length of the pool it indexes.
C21_ThreeIndexStreams ==
    pc = "local_done"
        => /\ Get(Line(result, "heartLine"), "observation")
                = Entry(heartObservations, StreamA(seed, Len(heartObservations)))
           /\ Get(Line(result, "headLine"), "observation")
                = Entry(headObservations, StreamA(seed, Len(headObservations)))
           /\ Get(Line(result, "lifeLine"), "observation")
                = Entry(lifeObservations, StreamA(seed, Len(lifeObservations)))
           /\ Get(Line(result, "heartLine"), "meaning")
                = Entry(heartMeanings, StreamB(seed, Len(heartMeanings)))
           /\ Get(Line(result, "headLine"), "meaning")
                = Entry(headMeanings, StreamB(seed, Len(headMeanings)))
           /\ Get(Line(result, "lifeLine"), "meaning")
                = Entry(lifeMeanings, StreamB(seed, Len(lifeMeanings)))
           /\ Get(result, "overallReading")
                = Entry(overallReadings(dominantHand, focusArea),
                        StreamC(seed, Len(overallReadings(dominantHand, focusArea))))
           /\ Get(result, "advice")
                = Entry(adviceList, StreamA(seed, Len(adviceList)))

\* a call at a clock value where the three streams give three different
\* indices into pools of the same length
C21_Witness ==
    /\ pc = "local_done"
    /\ ToInt32(seed) >= 0
    /\ StreamA(seed, 5) # StreamB(seed, 5)
    /\ StreamB(seed, 5) # StreamC(seed, 5)
    /\ StreamA(seed, 5) # StreamC(seed, 5)
    /\ Get(Line(result, "lifeLine"), "meaning")
         = Str(lifeMeanings[StreamB(seed, 5) + 1])
    /\ Get(result, "overallReading").kind = "string"

-----------------------------------------------------------------------------
(* The clause interpolated into overallReading *)

SuppliedHands == { Str("left"), Str("right") }
SuppliedFocusAreas == { Str("career") }

\* template i of the overall pool has a clause that tells the hands apart
HasHandClause(i) ==
    overallReadings(Str("left"), Null)[i] # overallReadings(Str("right"), Null)[i]

\* template i of the overall pool has a clause that names the focus area
HasFocusClause(i) ==
    \E f \in SuppliedFocusAreas :
        overallReadings(Null, f)[i] # overallReadings(Null, Null)[i]

\* the texts of template i with a clause used for a supplied hand or focus
ContextSpecificTexts(i) ==
    ( IF HasHandClause(i)
      THEN { overallReadings(h, Null)[i] : h \in SuppliedHands } ELSE { } )
    \cup
    ( IF HasFocusClause(i)
      THEN { overallReadings(Null, f)[i] : f \in SuppliedFocusAreas } ELSE { } )

\* C22: at every clock value, with dominantHand and focusArea both unset
\* the clause in the overallReading is a generic one: the text is none of
\* the texts its template gives for a supplied hand ("left" or "right") or
\* for a supplied focus area.
C22_UnsetContextGetsGenericClause ==
    ( pc = "local_done" /\ dominantHand = Null /\ focusArea = Null
      /\ Get(result, "overallReading").kind = "string" )
        => \A i \in 1 .. Len(overallReadings(Null, Null)) :
              Get(result, "overallReading") = Str(overallReadings(Null, Null)[i])
                  => overallReadings(Null, Null)[i] \notin ContextSpecificTexts(i)

OtherHand(h) == IF h = Str("left") THEN Str("right") ELSE Str("left")

\* C23: at every clock value a supplied context value shows in the
\* overallReading: with a non-empty focusArea the text differs from the
\* one for the same clock value and hand with focusArea unset, and with
\* dominantHand "left" or "right" it differs from the one for the same
\* clock value and focusArea with the other hand.
C23_SuppliedContextIsReflected ==
    pc = "local_done"
        => /\ Truthy(focusArea)
                => Get(result, "overallReading")
                     # Get(generateLocalReading(seed, dominantHand, Null), "overallReading")
           /\ dominantHand \in SuppliedHands
                => Get(result, "overallReading")
                     # Get(generateLocalReading(seed, OtherHand(dominantHand), focusArea),
                           "overallReading")

-----------------------------------------------------------------------------
(* Two requests served concurrently.  The runtime runs one handler at a time *)
(* and may pass to another one wherever a handler awaits; each invocation of *)
(* POST has its own locals (part_001, lines 130-131 and 134-137; part_000,  *)
(* lines 46-47), while process.env and the module constant genAI are shared  *)
(* and never written.                                                        *)

\* the locals of the request that is running
Locals ==
    [ pc |-> pc, body |-> body, dominantHand |-> dominantHand,
      focusArea |-> focusArea, maxRetries |-> maxRetries, attempt |-> attempt,
      lastError |-> lastError, calls |-> calls, inFlight |-> inFlight,
      waits |-> waits, log |-> log, result |-> result, thrown |-> thrown,
      seed |-> seed, response |-> response, sentHistory |-> sentHistory,
      sentMessage |-> sentMessage ]

\* the locals of a request that has just arrived: entry is "start" for the
\* reading endpoint and "chat_start" for the chat endpoint
ArrivedLocals(entry, b) ==
    [ pc |-> entry, body |-> b, dominantHand |-> Null, focusArea |-> Null,
      maxRetries |-> 0, attempt |-> 0, lastError |-> Null, calls |-> 0,
      inFlight |-> 0, waits |-> << >>, log |-> << >>, result |-> NoResult,
      thrown |-> Undefined, seed |-> NoSeed, response |-> NoResponse,
      sentHistory |-> Undefined, sentMessage |-> Undefined ]

\* where a handler is suspended (an await) or has ended
AwaitPoints ==
    { "start", "await_model", "await_timer", "returned", "chat_start",
      "chat_await", "done", "escaped" }

\* Switch with dominantHand and focusArea declared at module level: the two
\* invocations share them
SwitchSharedLocals ==
    /\ pc \in AwaitPoints
    /\ other.pc # "none"
    /\ other' = Locals
    /\ pc' = other.pc
    /\ body' = other.body
    /\ dominantHand' = dominantHand
    /\ focusArea' = focusArea
    /\ maxRetries' = other.maxRetries
    /\ attempt' = other.attempt
    /\ lastError' = other.lastError
    /\ calls' = other.calls
    /\ inFlight' = other.inFlight
    /\ waits' = other.waits
    /\ log' = other.log
    /\ result' = other.result
    /\ thrown' = other.thrown
    /\ seed' = other.seed
    /\ response' = other.response
    /\ sentHistory' = other.sentHistory
    /\ sentMessage' = other.sentMessage
    /\ UNCHANGED << apiKey, page >>

\* the running handler is suspended and the other request's handler goes on
\* with its own locals
Switch ==
    /\ pc \in AwaitPoints
    /\ other.pc # "none"
    /\ other' = Locals
    /\ pc' = other.pc
    /\ body' = other.body
    /\ dominantHand' = other.dominantHand
    /\ focusArea' = other.focusArea
    /\ maxRetries' = other.maxRetries
    /\ attempt' = other.attempt
    /\ lastError' = other.lastError
    /\ calls' = other.calls
    /\ inFlight' = other.inFlight
    /\ waits' = other.waits
    /\ log' = other.log
    /\ result' = other.result
    /\ thrown' = other.thrown
    /\ seed' = other.seed
    /\ response' = other.response
    /\ sentHistory' = other.sentHistory
    /\ sentMessage' = other.sentMessage
    /\ UNCHANGED << apiKey, page >>

\* the requests, model answers and clock values of the two-request runs
PairReadingBodies ==
    { Unparsable, Null,
      Obj([image |-> Undefined, dominantHand |-> Str("left"), focusArea |-> Null]),
      Obj([image |-> Num(5), dominantHand |-> Str("right"), focusArea |-> Str("career")]),
      Obj([image |-> Str("data:image/jpeg;base64,AAAA"),
           dominantHand |-> Str("left"), focusArea |-> Str("career")]),
      Obj([image |-> Str("data:image/jpeg;base64,AAAA"),
           dominantHand |-> Str("right"), focusArea |-> Null]) }

PairChatBodies ==
    { Unparsable, Null,
      Obj([message |-> Undefined, reading |-> Null, chatHistory |-> Undefined]),
      Obj([message |-> Num(5), reading |-> Null, chatHistory |-> Undefined]),
      Obj([message |-> Text(WillIFindLove), reading |-> DocValue("{full}"),
           chatHistory |-> Arr(<< Turn("user", "What does my heart line say?") >>)]),
      Obj([message |-> Text(WhatAboutMyJob), reading |-> Null,
           chatHistory |-> Arr(<< Null >>)]) }

PairArrivals ==
    { ArrivedLocals("start", b) : b \in PairReadingBodies }
    \cup { ArrivedLocals("chat_start", b) : b \in PairChatBodies }

PairResults ==
    { TextResult(<< "{full}" >>),
      TextResult(<< FENCE, TAG, NL, "{partial}", NL, FENCE >>),
      TextResult(<< PROSE >>),
      BlockedResult }

PairSeeds ==
    { [hi |-> SeedHigh, mid |-> m, lo |-> 0] : m \in 0 .. 1 }

\* the answers and clock values stay within the sets above
PairInputs ==
    /\ result \in PairResults \cup ChatReplies \cup { NoResult }
    /\ seed \in PairSeeds \cup { NoSeed }

InitPair ==
    /\ page = NoPage
    /\ apiKey \in ApiKeys
    /\ \E first \in PairArrivals :
         /\ pc = first.pc
         /\ body = first.body
         /\ dominantHand = first.dominantHand
         /\ focusArea = first.focusArea
         /\ maxRetries = first.maxRetries
         /\ attempt = first.attempt
         /\ lastError = first.lastError
         /\ calls = first.calls
         /\ inFlight = first.inFlight
         /\ waits = first.waits
         /\ log = first.log
         /\ result = first.result
         /\ thrown = first.thrown
         /\ seed = first.seed
         /\ response = first.response
         /\ sentHistory = first.sentHistory
         /\ sentMessage = first.sentMessage
    /\ other \in PairArrivals

NextPair ==
    \/ Next /\ PairInputs'
    \/ NextChat /\ PairInputs'
    \/ Switch

SpecPair == InitPair /\ [][NextPair]_vars

-----------------------------------------------------------------------------
(* Independence of concurrent requests *)

\* the request of the locals r was sent to the chat endpoint
IsChatRequest(r) == r.body.kind = "object" /\ "message" \in DOMAIN r.body.val

\* the response the reading handler owes to the request of r, given only
\* that request's body, the clock value it read and the model's answer to
\* its own calls
OwnReadingResponse(r) ==
    LET hand == IF r.body.kind = "object" THEN Get(r.body, "dominantHand") ELSE Null
        focus == IF r.body.kind = "object" THEN Get(r.body, "focusArea") ELSE Null
        fallback == [status |-> 200,
                     body |-> NextResponseJson(generateLocalReading(r.seed, hand, focus))]
    IN  IF r.body.kind # "object" THEN fallback
        ELSE IF ~Truthy(Get(r.body, "image"))
        THEN [status |-> 400, body |-> Obj([error |-> Str("No image provided")])]
        ELSE IF r.result.kind = "text"
        THEN IF JSONParses(r.result.text)
             THEN [status |-> 200, body |-> JSONParse(r.result.text)]
             ELSE IF JSONParses(cleanedText(r.result.text))
             THEN [status |-> 200, body |-> JSONParse(cleanedText(r.result.text))]
             ELSE [status |-> 500,
                   body |-> Obj([ error |-> Str("Failed to parse oracle's response"),
                                  details |-> Text(r.result.text) ])]
        ELSE fallback

\* the responses the chat handler may give to the request of r, given only
\* that request's message and the model's answer to its own call
OwnChatResponses(r) ==
    IF ~Truthy(Get(r.body, "message")) THEN { NoMessageReply }
    ELSE IF r.result # NoResult
    THEN { [status |-> 200, body |-> Obj([response |-> r.result])] }
    ELSE { [status |-> 200,
            body |-> Obj([response |-> generateLocalChatResponse(Get(r.body, "message"), k)])] :
             k \in RandomDraws }

RespondsToOwnInputs(r) ==
    r.pc = "done"
        => /\ IF IsChatRequest(r)
              THEN r.response \in OwnChatResponses(r)
              ELSE r.response = OwnReadingResponse(r)
           /\ Offline(apiKey) => r.calls = 0 /\ r.result = NoResult

\* C24: two requests served concurrently are independent. In every
\* interleaving of their handlers the response to each is the one owed to
\* its own body, the credentials, the clock value it read and the model's
\* answers to its own calls; the other request's dominantHand, focusArea,
\* model answer or failure never shows in it.
C24_ConcurrentRequestsIndependent ==
    RespondsToOwnInputs(Locals) /\ RespondsToOwnInputs(other)

\* both requests have ended; the one for the left hand fell back after its
\* model calls failed while the one for the right hand got the model's answer
C24_Witness ==
    /\ pc = "done"
    /\ other.pc = "done"
    /\ body = Obj([image |-> Str("data:image/jpeg;base64,AAAA"),
                   dominantHand |-> Str("left"), focusArea |-> Str("career")])
    /\ thrown \in ModelErrors
    /\ seed = [hi |-> SeedHigh, mid |-> 0, lo |-> 0]
    /\ response = [status |-> 200,
                   body |-> generateLocalReading(seed, Str("left"), Str("career"))]
    /\ other.body = Obj([image |-> Str("data:image/jpeg;base64,AAAA"),
                         dominantHand |-> Str("right"), focusArea |-> Null])
    /\ other.result = TextResult(<< "{full}" >>)
    /\ other.response = [status |-> 200, body |-> DocValue("{full}")]

-----------------------------------------------------------------------------
(* The page component (src/app/page.tsx): its state, its mount effect and   *)
(* its event handlers.  The page state is the record page; stored is the    *)
(* localStorage item "palm_archive"; pending holds, for every fetch that is *)
(* awaited, what the handler that issued it closed over.  Two fields are    *)
(* history only: about, the reading each chat turn was exchanged about, and *)
(* fetched, the outcome of the fetch that was handled last.                 *)

\* the variables of the request handlers, which the page leaves alone
requestVars ==
    << pc, apiKey, body, dominantHand, focusArea, maxRetries, attempt,
       lastError, calls, inFlight, waits, log, result, thrown, seed, response,
       sentHistory, sentMessage, other >>

\* the requests, analyses and chat messages together, a run of the page
\* may start
MaxRequests == 2

PageImages == { Str("data:image/jpeg;base64,AAAA") }
PageHands == { Str("left"), Str("right") }
PageFocusAreas == { Str(""), Str("career") }

\* the bodies of the 200 responses of the reading endpoint the page is run
\* with: what JSON.parse made of the model's text (part_001, lines 227-229),
\* a reading without a fate line and the JSON value null
PageReadings == { NextResponseJson(DocValue(d)) : d \in {"{fateNull}", "null"} }

\* what is typed into the chat input: nothing, a question
PageChatInputs == { << >>, << SP, "What about my job?", SP >> }

\* data.response of an ok chat response
PageChatReplies == { Str("The lines of destiny favour you.") }

\* a SavedReading (lines 28-34); the id and the date are both read off the
\* clock, kept here as one number
SavedReading(now, reading, image, hand) ==
    [ id |-> now, date |-> now, reading |-> reading, image |-> image,
      dominantHand |-> hand ]

\* a record the archive of an earlier visit holds
EarlierRecord ==
    SavedReading(0, DocValue("{full}"), Str("data:image/jpeg;base64,AAAA"), Str("left"))

\* a record saved before that one, of another reading
OlderRecord ==
    SavedReading(-1, DocValue("{fateNull}"), Str("data:image/jpeg;base64,AAAA"), Str("right"))

\* what localStorage may hold when the page is opened: no item, an item
\* that is no JSON, an empty archive, an archive of one or of two records
NoItem == [kind |-> "null"]
StoredArchive(a) == [kind |-> "archive", val |-> a]
StoredAtOpen ==
    { NoItem, Unparsable, StoredArchive(<< >>), StoredArchive(<< EarlierRecord >>),
      StoredArchive(<< EarlierRecord, OlderRecord >>) }

NoPending == << >>
NotFetched == [kind |-> "none"]

\* lines 38-51: the initial state of the component
InitialPage(stored) ==
    [ appState |-> "welcome", capturedImage |-> Null, isWebcamActive |-> FALSE,
      reading |-> Null, chatMessages |-> << >>, chatInput |-> << >>,
      isLoading |-> FALSE, dominantHand |-> Null, focusArea |-> Str(""),
      captureStep |-> 1, archive |-> << >>, stored |-> stored,
      mounted |-> FALSE, pending |-> NoPending, now |-> 1, requests |-> 0,
      about |-> << >>, fetched |-> NotFetched ]

\* lines 62-72: the effect that loads the archive on mount
LoadArchive ==
    /\ ~page.mounted
    /\ page' = [page EXCEPT !.mounted = TRUE,
                            !.archive = IF page.stored.kind = "archive"
                                        THEN page.stored.val ELSE @]
    /\ UNCHANGED requestVars

\* the page is mounted and shows the view v
Shows(v) == page.mounted /\ page.appState = v

\* lines 475, 567: the reading and the chat view are rendered, controls
\* included, only while reading is truthy
ShowsWithReading(v) == Shows(v) /\ Truthy(page.reading)

\* line 234: the welcome view is clicked
BeginCapture ==
    /\ Shows("welcome")
    /\ page' = [page EXCEPT !.appState = "capture"]
    /\ UNCHANGED requestVars

\* lines 260-262: the archive link of the welcome view
OpenArchive ==
    /\ Shows("welcome")
    /\ Len(page.archive) > 0
    /\ page' = [page EXCEPT !.appState = "archive"]
    /\ UNCHANGED requestVars

\* line 330: the empty frame is clicked
ActivateWebcam ==
    /\ Shows("capture")
    /\ page.captureStep = 1
    /\ page.capturedImage = Null
    /\ page' = [page EXCEPT !.isWebcamActive = TRUE]
    /\ UNCHANGED requestVars

\* lines 78-84: capture, offered while the webcam is on; the screenshot may
\* be null, and then nothing changes
capture ==
    /\ Shows("capture")
    /\ page.captureStep = 1
    /\ page.isWebcamActive
    /\ \E i \in PageImages :
         page' = [page EXCEPT !.capturedImage = i, !.isWebcamActive = FALSE]
    /\ UNCHANGED requestVars

\* lines 86-98: handleFileUpload, the file read as a data URL
handleFileUpload ==
    /\ Shows("capture")
    /\ page.captureStep = 1
    /\ \E i \in PageImages :
         page' = [page EXCEPT !.capturedImage = i, !.isWebcamActive = FALSE]
    /\ UNCHANGED requestVars

\* line 360: the captured image is discarded
Retake ==
    /\ Shows("capture")
    /\ page.captureStep = 1
    /\ page.capturedImage # Null
    /\ ~page.isWebcamActive
    /\ page' = [page EXCEPT !.capturedImage = Null, !.isWebcamActive = TRUE]
    /\ UNCHANGED requestVars

\* line 373: on to the second step, enabled once an image is captured
NextStep ==
    /\ Shows("capture")
    /\ page.captureStep = 1
    /\ page.capturedImage # Null
    /\ page' = [page EXCEPT !.captureStep = 2]
    /\ UNCHANGED requestVars

\* lines 383-384
SetDominantHand ==
    /\ Shows("capture")
    /\ page.captureStep = 2
    /\ \E h \in PageHands : page' = [page EXCEPT !.dominantHand = h]
    /\ UNCHANGED requestVars

\* line 390
SetFocusArea ==
    /\ Shows("capture")
    /\ page.captureStep = 2
    /\ \E f \in PageFocusAreas : page' = [page EXCEPT !.focusArea = f]
    /\ UNCHANGED requestVars

\* lines 212-221
startOverState(p) ==
    [p EXCEPT !.appState = "welcome", !.capturedImage = Null,
              !.isWebcamActive = FALSE, !.reading = Null,
              !.chatMessages = << >>, !.about = << >>, !.dominantHand = Null,
              !.focusArea = Str(""), !.captureStep = 1]

\* line 314: back, out of the capture view or to its first step
BackFromCapture ==
    /\ Shows("capture")
    /\ page' = IF page.captureStep = 1 THEN startOverState(page)
               ELSE [page EXCEPT !.captureStep = 1]
    /\ UNCHANGED requestVars

\* lines 424, 483, 591: startOver from the archive, reading and chat views
startOver ==
    /\ \/ Shows("archive")
       \/ ShowsWithReading("reading")
       \/ ShowsWithReading("chat")
    /\ page' = startOverState(page)
    /\ UNCHANGED requestVars

\* s without its i-th element
RemoveAt(s, i) == SubSeq(s, 1, i - 1) \o SubSeq(s, i + 1, Len(s))

\* analyzeHand offered while a request is loading: the button disabled on
\* a missing dominantHand alone
analyzeHandWhileLoading ==
    /\ Shows("capture")
    /\ page.captureStep = 2
    /\ Truthy(page.dominantHand)
    /\ page.capturedImage # Null
    /\ page.requests < MaxRequests
    /\ page' = [page EXCEPT !.appState = "analyzing", !.isLoading = TRUE,
                            !.requests = @ + 1,
                            !.pending = Append(@, [ kind |-> "analyze",
                                          image |-> page.capturedImage,
                                          dominantHand |-> page.dominantHand,
                                          focusArea |-> page.focusArea,
                                          archive |-> page.archive ])]
    /\ UNCHANGED requestVars

\* lines 120-137 and the button of line 394: analyzeHand up to its fetch;
\* the handler closes over the image, the hand, the focus and the archive
\* of the render it was made in
analyzeHand ==
    /\ Shows("capture")
    /\ page.captureStep = 2
    /\ Truthy(page.dominantHand)
    /\ ~page.isLoading
    /\ page.capturedImage # Null
    /\ page.requests < MaxRequests
    /\ page' = [page EXCEPT !.appState = "analyzing", !.isLoading = TRUE,
                            !.requests = @ + 1,
                            !.pending = Append(@, [ kind |-> "analyze",
                                          image |-> page.capturedImage,
                                          dominantHand |-> page.dominantHand,
                                          focusArea |-> page.focusArea,
                                          archive |-> page.archive ])]
    /\ UNCHANGED requestVars

\* lines 100-107: the entry saveReadingToArchive puts first, in the archive
\* the handler c closed over
updatedArchive(p, c, newReading) ==
    << SavedReading(p.now, newReading, c.image, c.dominantHand) >> \o c.archive

\* lines 139-148, 152: the response is ok; the reading is shown and saved
AnalyzeSucceeds ==
    /\ page.mounted
    /\ \E i \in 1 .. Len(page.pending), data \in PageReadings :
         /\ page.pending[i].kind = "analyze"
         /\ page' = [page EXCEPT
                    !.reading = data,
                    !.archive = updatedArchive(page, page.pending[i], data),
                    !.stored = StoredArchive(updatedArchive(page, page.pending[i], data)),
                    !.appState = "reading",
                    !.isLoading = FALSE,
                    !.pending = RemoveAt(@, i),
                    !.fetched = [kind |-> "ok"],
                    !.now = @ + 1]
    /\ UNCHANGED requestVars

\* lines 108, 149-152: the response is ok and localStorage.setItem throws
\* (the quota is exceeded) after setReading and setArchive; the catch block
\* shows the capture view
AnalyzeSaveThrows ==
    /\ page.mounted
    /\ \E i \in 1 .. Len(page.pending), data \in PageReadings :
         /\ page.pending[i].kind = "analyze"
         /\ page' = [page EXCEPT
                    !.reading = data,
                    !.archive = updatedArchive(page, page.pending[i], data),
                    !.appState = "capture",
                    !.isLoading = FALSE,
                    !.pending = RemoveAt(@, i),
                    !.fetched = [kind |-> "ok"],
                    !.now = @ + 1]
    /\ UNCHANGED requestVars

\* lines 141-143, 149-154: the fetch rejects or the response is not ok
AnalyzeFails ==
    /\ page.mounted
    /\ \E i \in 1 .. Len(page.pending) :
         /\ page.pending[i].kind = "analyze"
         /\ page' = [page EXCEPT !.appState = "capture", !.isLoading = FALSE,
                                 !.pending = RemoveAt(@, i),
                                 !.fetched = [kind |-> "failed"],
                                 !.now = @ + 1]
    /\ UNCHANGED requestVars

\* line 621: the chat input is edited; the input is never disabled
setChatInput ==
    /\ ShowsWithReading("chat")
    /\ \E t \in PageChatInputs : page' = [page EXCEPT !.chatInput = t]
    /\ UNCHANGED requestVars

\* a ChatMessage of the page
PageTurn(role, content) == Obj([role |-> Str(role), content |-> content])

\* lines 172-189: sendChatMessage up to its fetch, from the SEND button
\* (disabled while loading or on a blank input, line 623) or the Enter key
\* (ignored while loading, line 621; the handler returns on a blank
\* input).  The body is built from the reading and the chatMessages of the
\* render the handler was made in.
sendChatMessage ==
    /\ ShowsWithReading("chat")
    /\ ~page.isLoading
    /\ trim(page.chatInput) # << >>
    /\ page.requests < MaxRequests
    /\ page' = [page EXCEPT
                  !.chatInput = << >>,
                  !.chatMessages = Append(@, PageTurn("user", Text(trim(page.chatInput)))),
                  !.about = Append(@, page.reading),
                  !.isLoading = TRUE,
                  !.requests = @ + 1,
                  !.pending = Append(@, [ kind |-> "chat",
                                 body |-> sendChatMessageBody(Text(trim(page.chatInput)),
                                                              page.reading,
                                                              page.chatMessages),
                                 about |-> page.about ])]
    /\ UNCHANGED requestVars

\* lines 191-200, 207-209: the chat response is ok; the reply is appended
\* to the chatMessages of the moment
ChatSucceeds ==
    /\ page.mounted
    /\ \E i \in 1 .. Len(page.pending), reply \in PageChatReplies :
         /\ page.pending[i].kind = "chat"
         /\ page' = [page EXCEPT
                       !.chatMessages = Append(@, PageTurn("assistant", reply)),
                       !.about = Append(@, Get(page.pending[i].body, "reading")),
                       !.isLoading = FALSE,
                       !.fetched = [kind |-> "ok"],
                       !.pending = RemoveAt(@, i)]
    /\ UNCHANGED requestVars

\* lines 193-195, 201-209: the fetch rejects or the response is not ok;
\* the error message is appended as a turn of the assistant
ChatFails ==
    /\ page.mounted
    /\ \E i \in 1 .. Len(page.pending) :
         /\ page.pending[i].kind = "chat"
         /\ page' = [page EXCEPT
                       !.chatMessages = Append(@, PageTurn("assistant",
                           Str("The Oracle is silent. Please check your connection."))),
                       !.about = Append(@, Get(page.pending[i].body, "reading")),
                       !.isLoading = FALSE,
                       !.fetched = [kind |-> "failed"],
                       !.pending = RemoveAt(@, i)]
    /\ UNCHANGED requestVars

\* archive.filter(item => item.id !== id)
withoutId(archive, id) == SelectSeq(archive, LAMBDA item : item.id # id)

\* lines 113-118: deleteFromArchive, from the delete button of an entry
deleteFromArchive ==
    /\ Shows("archive")
    /\ \E i \in 1 .. Len(page.archive) :
         page' = [page EXCEPT
                    !.archive = withoutId(page.archive, page.archive[i].id),
                    !.stored = StoredArchive(withoutId(page.archive, page.archive[i].id))]
    /\ UNCHANGED requestVars

\* lines 223-228: viewSavedReading, from a click on an entry
viewSavedReading ==
    /\ Shows("archive")
    /\ \E i \in 1 .. Len(page.archive) :
         page' = [page EXCEPT !.reading = page.archive[i].reading,
                              !.capturedImage = page.archive[i].image,
                              !.dominantHand = page.archive[i].dominantHand,
                              !.appState = "reading"]
    /\ UNCHANGED requestVars

\* line 479: back from the reading view
BackFromReading ==
    /\ ShowsWithReading("reading")
    /\ page' = [page EXCEPT !.appState = IF Len(page.archive) > 0
                                          THEN "archive" ELSE "capture"]
    /\ UNCHANGED requestVars

\* line 556
OpenChat ==
    /\ ShowsWithReading("reading")
    /\ page' = [page EXCEPT !.appState = "chat"]
    /\ UNCHANGED requestVars

\* line 587
BackFromChat ==
    /\ ShowsWithReading("chat")
    /\ page' = [page EXCEPT !.appState = "reading"]
    /\ UNCHANGED requestVars

InitPage ==
    /\ InitCommon
    /\ pc = "page"
    /\ apiKey = Undefined
    /\ body = Undefined
    /\ maxRetries = 0
    /\ attempt = 0
    /\ other = NoOther
    /\ \E stored \in StoredAtOpen : page = InitialPage(stored)

NextPage ==
    \/ LoadArchive
    \/ BeginCapture
    \/ OpenArchive
    \/ ActivateWebcam
    \/ capture
    \/ handleFileUpload
    \/ Retake
    \/ NextStep
    \/ SetDominantHand
    \/ SetFocusArea
    \/ BackFromCapture
    \/ startOver
    \/ analyzeHand
    \/ AnalyzeSucceeds
    \/ AnalyzeSaveThrows
    \/ AnalyzeFails
    \/ setChatInput
    \/ sendChatMessage
    \/ ChatSucceeds
    \/ ChatFails
    \/ deleteFromArchive
    \/ viewSavedReading
    \/ BackFromReading
    \/ OpenChat
    \/ BackFromChat

SpecPage == InitPage /\ [][NextPage]_vars

-----------------------------------------------------------------------------
(* Properties of the page *)

\* every record of the sequence a is a record, unchanged, of the sequence b
KeepsRecords(a, b) ==
    \A i \in 1 .. Len(a) : \E j \in 1 .. Len(b) : b[j] = a[i]

\* C25: the archive of saved readings is append-only. No step of the page
\* removes or changes a record that is in the in-memory archive, and none
\* removes or changes a record that is in the persisted copy.
C25_ArchiveAppendOnly ==
    [][ /\ KeepsRecords(page.archive, page'.archive)
        /\ page.stored.kind = "archive"
              => /\ page'.stored.kind = "archive"
                 /\ KeepsRecords(page.stored.val, page'.stored.val) ]_vars

-----------------------------------------------------------------------------
(* Further properties of generateLocalChatResponse *)

Categories == { "career", "love", "destiny", "general" }

\* C26: every reply of the chat fallback responder is a line of the fixed
\* pool of the category the message was classified into (3 career, 3 love,
\* 3 destiny, 4 general lines): the random index stays within the pool, and
\* the reply is never undefined nor a line of another category.
C26_ReplyFromClassifiedPool ==
    pc = "local_chat_done" =>
        LET c == category(toLowerCase(Get(body, "message").val))
        IN  /\ Len(responses.career) = 3
            /\ Len(responses.love) = 3
            /\ Len(responses.destiny) = 3
            /\ Len(responses.general) = 4
            /\ result.kind = "string"
            /\ result \in PoolOf(c)
            /\ \A d \in Categories \ {c} : result \notin PoolOf(d)

\* the last line of the general pool and the last line of a pool of three,
\* each drawn for some message
C26_Witness ==
    /\ pc = "local_chat_done"
    /\ \/ /\ Get(body, "message").val = << "h", "e", "l", "l", "o", " " >>
          /\ result = Str(responses.general[4])
       \/ /\ category(toLowerCase(Get(body, "message").val)) = "love"
          /\ result = Str(responses.love[3])

-----------------------------------------------------------------------------
(* callGeminiWithRetry: the first success ends it *)

\* C27: callGeminiWithRetry stops at the first success. Once a call has
\* succeeded the function has returned its result, every call before it
\* failed, and no call and no wait follows: the number of calls is the
\* position of the first success, at most maxRetries. When no call
\* succeeds the number of calls at the throw is maxRetries.
C27_StopsAtFirstSuccess ==
    /\ result # NoResult
          => /\ pc = "returned"
             /\ inFlight = 0
             /\ calls = Len(log) + 1
             /\ calls = attempt
             /\ calls <= maxRetries
             /\ Len(waits) = calls - 1
    /\ pc = "thrown" => calls = maxRetries /\ result = NoResult

\* the second of three attempts succeeds: two calls, one wait, no third call
C27_Witness ==
    /\ pc = "returned"
    /\ maxRetries = 3
    /\ calls = 2
    /\ Len(log) = 1
    /\ waits = << 500 >>
    /\ result = TextResult(<< "{full}" >>)

-----------------------------------------------------------------------------
(* The range of the pool indices *)

\* C28: for every clock value, each of seed % n, (seed >> 4) % n and
\* (seed >> 8) % n lies in 0 .. n - 1 for the length n of the pool it
\* indexes: 5 for the line and overall pools, 7 for the advice pool.
C28_IndicesInRange ==
    pc = "local_done"
        => /\ Len(heartObservations) = 5 /\ Len(heartMeanings) = 5
           /\ Len(overallReadings(dominantHand, focusArea)) = 5
           /\ Len(adviceList) = 7
           /\ StreamA(seed, 5) \in 0 .. 4
           /\ StreamA(seed, 7) \in 0 .. 6
           /\ StreamB(seed, 5) \in 0 .. 4
           /\ StreamC(seed, 5) \in 0 .. 4
           /\ Get(Get(result, "heartLine"), "meaning") # Undefined
           /\ Get(result, "overallReading") # Undefined

\* what remains of C28 for stream A, which is taken of the clock value
\* itself: the observations and the advice are always entries of their pools
StreamAInRange ==
    pc = "local_done"
        => /\ StreamA(seed, 5) \in 0 .. 4
           /\ StreamA(seed, 7) \in 0 .. 6
           /\ Get(Get(result, "heartLine"), "observation").kind = "string"
           /\ Get(result, "advice").kind = "string"

-----------------------------------------------------------------------------
(* The context of the fallback reading *)

\* the reading generateLocalReading gives, at the clock value read, for the
\* dominantHand and focusArea of the request body
ReadingForRequestContext ==
    [ status |-> 200,
      body |-> NextResponseJson(
                 generateLocalReading(seed, Get(body, "dominantHand"),
                                      Get(body, "focusArea")) ) ]

\* the model path was entered and gave no text: image.split threw, every
\* model call failed, or response.text() threw
ModelPathFailed == HasImage /\ ~Offline(apiKey) /\ result.kind # "text"

-----------------------------------------------------------------------------
(* Termination. Every await is on a promise that settles: the model call    *)
(* fulfils or rejects, the timer of line 121 fires, and the runtime then    *)
(* runs the continuation. That is weak fairness of the next step.           *)
SpecRetryFair == SpecRetry /\ WF_vars(NextRetry)

SpecFair == Spec /\ WF_vars(Next)

\* an upper bound on the steps still to be taken: three for every attempt
\* that is left (call, failure, wait), and the steps around the loop
StepsLeft ==
    CASE pc = "start"       -> 3 * DefaultMaxRetries + 3
      [] pc = "loop"        -> 3 * (maxRetries - attempt) + 5
      [] pc = "await_model" -> 3 * (maxRetries - attempt) + 4
      [] pc = "await_timer" -> 3 * (maxRetries - attempt) + 3
      [] pc = "returned"    -> 1
      [] pc = "thrown"      -> 1
      [] OTHER              -> 0

EveryStepIsProgress == [][StepsLeft' < StepsLeft /\ StepsLeft' >= 0]_vars

RetryEnded == pc \in {"returned", "thrown"}

\* the outcome is a result or a throw, never both, and is not replaced
OneOutcome ==
    /\ pc = "returned" => ( result \in ModelResults /\ thrown = Undefined )
    /\ pc = "thrown" => ( result = NoResult /\ thrown = lastError /\ thrown \in ModelErrors )

\* C30: callGeminiWithRetry terminates for every maxRetries and whatever the
\* model does: every step uses up one of a bounded number of steps, the
\* function eventually returns a result or throws, and it does one of the
\* two only.
C30_RetryTerminates ==
    /\ EveryStepIsProgress
    /\ <>RetryEnded
    /\ []OneOutcome

\* every attempt of the largest maxRetries failed and lastError was thrown
C30_Witness ==
    /\ pc = "thrown"
    /\ maxRetries = MaxRetriesBound
    /\ calls = MaxRetriesBound
    /\ Len(waits) = MaxRetriesBound - 1

\* the reading request as a whole, under SpecFair: the retry loop, once
\* entered, ends; the request eventually has a response; and a response,
\* once there, is not replaced
RequestRespondsOnce ==
    /\ EveryStepIsProgress
    /\ (pc = "loop") ~> RetryEnded
    /\ <>(pc = "done" /\ response # NoResponse)
    /\ [][response # NoResponse => response' = response]_vars

-----------------------------------------------------------------------------
(* Requests of the page *)

InFlight(kind) == { i \in 1 .. Len(page.pending) : page.pending[i].kind = kind }

\* at most one fetch is awaited, and isLoading says whether one is
OneRequestAndLoading ==
    /\ Len(page.pending) <= 1
    /\ page.isLoading <=> page.pending # << >>

\* C34: the page has at most one request, palm analysis or chat, in flight
\* at any time, isLoading is true exactly while one is in flight, no step
\* starts a request while another is in flight, and the step that handles
\* the response or the failure of a request leaves isLoading false.
C34_OneRequestInFlight ==
    /\ []OneRequestAndLoading
    /\ [][ /\ Len(page'.pending) > Len(page.pending) => page.pending = << >>
           /\ Len(page'.pending) < Len(page.pending) => ~page'.isLoading ]_vars

\* a chat request is in flight while the capture view offers the analysis:
\* image captured, second step, dominant hand chosen
C34_Witness ==
    /\ InFlight("chat") # { }
    /\ page.appState = "capture"
    /\ page.captureStep = 2
    /\ page.capturedImage # Null
    /\ Truthy(page.dominantHand)

-----------------------------------------------------------------------------
(* The reading on display *)

\* the reading endpoint has answered 200 with the body null: the model's
\* text was the JSON document null, which the direct parse accepts
EndpointAnswersNull == pc = "done" /\ response = Respond(200, Null)

\* C31: whenever appState is "reading" or "chat" the reading state is a
\* non-null Reading, whatever the user did and whatever body the reading
\* endpoint sent with its 200.
C31_ReadingSetWhereShown ==
    page.appState \in {"reading", "chat"} => page.reading # Null


-----------------------------------------------------------------------------
(* The conversation on the page *)

\* the role of the i-th turn of a conversation that alternates from a user
\* turn
RoleAt(i) == IF i % 2 = 1 THEN Str("user") ELSE Str("assistant")

\* chatMessages alternates user, assistant, user, ... from a user turn
Alternates ==
    \A i \in 1 .. Len(page.chatMessages) :
        Get(page.chatMessages[i], "role") = RoleAt(i)

\* C32: chatMessages is always a strict alternation user, assistant, ...
\* that starts with a user turn, and once empty (as startOver leaves it) it
\* stays empty until sendChatMessage puts a user turn in it, whatever the
\* user does while a chat request is in flight and whenever the response
\* or the failure arrives.
C32_ChatAlternates ==
    /\ []Alternates
    /\ [][ page.chatMessages = << >> /\ page'.chatMessages # << >>
             => /\ Len(page'.chatMessages) = 1
                /\ Get(page'.chatMessages[1], "role") = Str("user")
                /\ page'.isLoading ]_vars


\* the chat requests in flight whose chatHistory holds a turn exchanged
\* about another reading than the one the request carries
CarriesForeignTurns ==
    { i \in InFlight("chat") :
        \E k \in 1 .. Len(page.pending[i].about) :
            page.pending[i].about[k] # Get(page.pending[i].body, "reading") }

\* C33: every chat request the page sends carries a chatHistory made only
\* of turns exchanged about the reading sent in the same request; changing
\* the reading on display never carries turns of the reading displayed
\* before into a later chat request.
C33_HistoryAboutSameReading == CarriesForeignTurns = { }


-----------------------------------------------------------------------------
(* The outcome of an analysis on the page *)

\* the analysis the page awaits
AwaitedAnalysis == page.pending[CHOOSE i \in InFlight("analyze") : TRUE]

\* the step handles the response or the failure of the awaited analysis
AnalysisHandled ==
    /\ InFlight("analyze") # { }
    /\ Len(page'.pending) < Len(page.pending)

\* what the step of an OK response does: reading set, one record with the
\* captured image and the dominant hand put in front of the archive, in
\* memory and persisted, and the reading view shown
ShownAndSaved ==
    /\ page'.reading \in PageReadings
    /\ Len(page'.archive) = Len(page.archive) + 1
    /\ SubSeq(page'.archive, 2, Len(page'.archive)) = page.archive
    /\ page'.archive[1] = SavedReading(page.now, page'.reading,
                                       AwaitedAnalysis.image,
                                       AwaitedAnalysis.dominantHand)
    /\ page'.stored = StoredArchive(page'.archive)
    /\ page'.appState = "reading"
    /\ ~page'.isLoading

\* what the step of a failure does: back to the capture view, with reading
\* and archive as they were
BackToCapture ==
    /\ page'.appState = "capture"
    /\ page'.reading = page.reading
    /\ page'.archive = page.archive
    /\ page'.stored = page.stored
    /\ ~page'.isLoading

\* C35: when the reading endpoint answers with a non-OK status or the fetch
\* fails, analyzeHand returns appState to "capture", leaves reading and the
\* archive (in memory and persisted) unchanged and sets isLoading to false;
\* an OK response, and only an OK response, sets reading, adds exactly one
\* record at the front of the archive (captured image, current dominant
\* hand) and moves appState to "reading".
C35_AnalysisOutcome ==
    [][ AnalysisHandled =>
          IF page'.fetched.kind = "ok" THEN ShownAndSaved ELSE BackToCapture ]_vars

\* the half of C35 about failures, which holds on its own
FailureLeavesStateAlone ==
    [][ AnalysisHandled /\ page'.fetched.kind = "failed" => BackToCapture ]_vars

====
